---------------------------- MODULE Spec2Model ----------------------------
(***************************************************************************)
(* A model of the LANCE vector index of duckdb-lancedb: the index object   *)
(* (src/src/lance_index.cpp), its metadata codec, and the optimizer pass   *)
(* that rewrites ORDER BY distance LIMIT k (src/src/lance_optimizer.cpp).  *)
(* The external vector engine behind rust_ffi.cpp is not part of src/; it  *)
(* is modelled from the interface the specification gives for it.          *)
(***************************************************************************)
EXTENDS Integers, Sequences, FiniteSets, TLC

(***************************************************************************)
(* Bounds of the model                                                     *)
(***************************************************************************)
\* row identifiers the host hands to the index are 0..MaxRowId
MaxRowId == 2
\* the engine hands out labels 0..MaxLabel-1
MaxLabel == 3
\* largest batch of one Append or Delete call
MaxBatch == 2
\* largest k of a Search
MaxK == 2

RowIds == 0..MaxRowId
\* the "unassigned/deleted" sentinel of the forward mapping
NoRow == -1
\* the null engine handle
NullHandle == "null"
\* the two index objects of the model: the table's index "t" and a second
\* instance "s" of it that the host merges into the first
IndexIds == {"t", "s"}
\* largest number of labels the engine skips before a batch
MaxGap == 1

(***************************************************************************)
(* Small helpers                                                           *)
(***************************************************************************)
Range(s) == {s[i] : i \in DOMAIN s}

Min(a, b) == IF a < b THEN a ELSE b

\* sequences over S without repetition, of length lo..hi
DistinctSeqs(S, lo, hi) ==
    UNION {{s \in [1..n -> S] : \A i, j \in 1..n : i # j => s[i] # s[j]} : n \in lo..hi}

\* all sequences over S of length lo..hi
AnySeqs(S, lo, hi) == UNION {[1..n -> S] : n \in lo..hi}

\* a function with r removed from its domain (unordered_map::erase)
Erase(f, r) == [x \in (DOMAIN f) \ {r} |-> f[x]]

\* a function with key r set to v (unordered_map::operator[] assignment)
Put(f, r, v) == [x \in (DOMAIN f) \cup {r} |-> IF x = r THEN v ELSE f[x]]

\* n copies of v
Fill(n, v) == [i \in 1..n |-> v]

(***************************************************************************)
(* Strings are sequences of character codes                                *)
(***************************************************************************)
StrL2 == <<108, 50>>
StrCosine == <<99, 111, 115, 105, 110, 101>>
StrDot == <<100, 111, 116>>
StrIp == <<105, 112>>
\* ".lance/"
StrLanceDir == <<46, 108, 97, 110, 99, 101, 47>>
\* "lance_idx"
StrDefaultName == <<108, 97, 110, 99, 101, 95, 105, 100, 120>>
\* the database path of the model, "/d"
DbPath == <<47, 100>>
\* the path of an in-memory database
InMemoryPath == <<>>
\* "/tmp", the directory when TMPDIR is not set
StrTmpDir == <<47, 116, 109, 112>>
\* "/duckdb_lance_"
StrTempPrefix == <<47, 100, 117, 99, 107, 100, 98, 95, 108, 97, 110, 99, 101, 95>>
\* std::to_string(getpid()) of the model's process, "7"
StrPid == <<55>>
\* the decimal addresses a stack variable of MakeUniqueTempPath can have, "1" and "2"
StackAddrs == {<<49>>, <<50>>}
\* the address when the call comes from a method of the index
StackAddr == <<49>>
\* the index names of the model: "i1" and "i2"
IndexName == [i \in IndexIds |-> IF i = "t" THEN <<105, 49>> ELSE <<105, 50>>]

IsNameChar(c) ==
    \/ (c >= 97 /\ c <= 122)
    \/ (c >= 65 /\ c <= 90)
    \/ (c >= 48 /\ c <= 57)
    \/ c = 95
    \/ c = 45

SanitizeIndexName(name) ==
    LET result == [i \in 1..Len(name) |-> IF IsNameChar(name[i]) THEN name[i] ELSE 95]
    IN  IF result = <<>> THEN StrDefaultName ELSE result

(***************************************************************************)
(* The rows of the table: the vector stored with each row id               *)
(***************************************************************************)
RowVec(r) ==
    CASE r = 0 -> <<1, 0>>
      [] r = 1 -> <<0, 1>>
      [] r = 2 -> <<2, 2>>
      [] OTHER -> <<r, 1>>

\* the size of the indexed ARRAY column
Dimension == Len(RowVec(0))

\* query vectors of the model: two of the configured dimension, one not
Queries == {<<0, 0>>, <<2, 1>>, <<1>>}

(***************************************************************************)
(* The external vector engine (modelled from the specification, section 6) *)
(* A dataset holds the vectors by label; deleted labels are tombstoned     *)
(* until compaction.                                                       *)
(***************************************************************************)
Dot(x, y) == x[1] * y[1] + x[2] * y[2]

Norm2(x) == Dot(x, x)

\* the distance the engine reports: squared L2, -dot, or for cosine the
\* pair that determines 1 - dot/sqrt(n2)
EngineDistance(metric, v, q) ==
    CASE metric = StrL2 -> (v[1] - q[1]) * (v[1] - q[1]) + (v[2] - q[2]) * (v[2] - q[2])
      [] metric \in {StrDot, StrIp} -> 0 - Dot(v, q)
      [] metric = StrCosine -> <<Dot(v, q), Norm2(v) * Norm2(q)>>
      [] OTHER -> 0

\* cosine similarity of a is at least that of b, for a = <<dot, n2>>
CosSimGeq(a, b) ==
    CASE a[1] >= 0 /\ b[1] < 0 -> TRUE
      [] a[1] < 0 /\ b[1] >= 0 -> FALSE
      [] a[1] >= 0 /\ b[1] >= 0 -> a[1] * a[1] * b[2] >= b[1] * b[1] * a[2]
      [] OTHER -> a[1] * a[1] * b[2] <= b[1] * b[1] * a[2]

\* distance d1 is not larger than d2
DistLeq(metric, d1, d2) ==
    IF metric = StrCosine THEN CosSimGeq(d1, d2) ELSE d1 <= d2

EngineLive(e) == (DOMAIN e.vecs) \ e.tomb

\* the results a k-NN search may return: the k nearest live vectors in
\* ascending distance, ties in any order
RECURSIVE EngineTopK(_, _, _, _, _)
EngineTopK(e, metric, q, live, k) ==
    IF k <= 0 \/ live = {} THEN {<<>>}
    ELSE LET d(l) == EngineDistance(metric, e.vecs[l], q)
             nearest == {l \in live : \A m \in live : DistLeq(metric, d(l), d(m))}
         IN  UNION {{<<[label |-> l, distance |-> d(l)]>> \o rest :
                        rest \in EngineTopK(e, metric, q, live \ {l}, k - 1)} :
                    l \in nearest}

EngineSearch(e, metric, q, k) == EngineTopK(e, metric, q, EngineLive(e), k)

\* add_batch: one fresh label per vector, in input order, after skipping gap labels
EngineAddLabels(e, n, gap) == [i \in 1..n |-> e.next + gap + i - 1]

EngineAddBatch(e, vectors, gap) ==
    LET labels == EngineAddLabels(e, Len(vectors), gap)
    IN  [e EXCEPT !.next = e.next + gap + Len(vectors),
                  !.vecs = [l \in (DOMAIN e.vecs) \cup Range(labels) |->
                               IF l \in DOMAIN e.vecs THEN e.vecs[l]
                               ELSE vectors[CHOOSE i \in 1..Len(labels) : labels[i] = l]]]

\* delete_batch: the labels stop being returned by search
EngineDeleteBatch(e, labels) ==
    [e EXCEPT !.tomb = e.tomb \cup (Range(labels) \cap DOMAIN e.vecs)]

\* compact: tombstoned vectors are reclaimed, live labels keep their value
EngineCompact(e) ==
    [e EXCEPT !.vecs = [l \in EngineLive(e) |-> e.vecs[l]], !.tomb = {}]

\* get_all_vectors: the stored vectors with their labels, ascending label
RECURSIVE SortedSeq(_)
SortedSeq(S) ==
    IF S = {} THEN <<>>
    ELSE LET m == CHOOSE x \in S : \A y \in S : x <= y
         IN  <<m>> \o SortedSeq(S \ {m})

EngineGetAllVectors(e) ==
    LET labels == SortedSeq(EngineLive(e))
    IN  [labels |-> labels, vectors |-> [i \in 1..Len(labels) |-> e.vecs[labels[i]]]]

EmptyDataset == [created |-> FALSE, next |-> 0, vecs |-> <<>>, tomb |-> {}]


(***************************************************************************)
(* State                                                                   *)
(***************************************************************************)
VARIABLES
    idx,        \* the table's index object (class LanceIndex)
    eng,        \* the engine's dataset at the backing location of idx
    deleted,    \* row ids passed to Delete and not added to the index since
    lastOp,     \* the last call: its name, the row ids given to an Append or a
                \* Delete, its outcome, its engine calls, the result of a Search
    alloc,      \* the blocks of block_allocator_, as checkpointed: block p is alloc[p]
    info,       \* the IndexStorageInfo the last Serialize call returned
    table,      \* the table of a query: the scalar columns p and s of each row
    catalog,    \* the indexes of the table as the optimizer scans them
    original,   \* the logical plan of the query as bound
    tree,       \* the logical plan of the query, which Optimize works on
    phase,      \* "idle", or how far the query is: "bound", "optimized", "executed"
    output,     \* the row ids the executed plan returned, in order
    sink,       \* the CreateLanceGlobalSinkState of a bulk build
    life,       \* which of the sink state and the index object exist, whether the
                \* engine has a handle allocated for the dataset, whether a handle
                \* was freed twice, whether CommitDrop has run
    scan,       \* the global state of a running index scan, and what it has done
    registry,   \* what the database instance has registered: index types, table
                \* functions and optimizer extensions, by name
    source      \* the other index object of a MergeIndexes call with its dataset,
                \* and the engine calls the last merge made on its handle

indexVars == <<idx, eng, deleted, lastOp>>
storageVars == <<alloc, info>>
queryVars == <<table, catalog, original, tree, phase, output, registry, source>>
buildVars == <<sink, life>>

\* a LanceIndex as its constructor leaves it when no storage info is given
NewIndex(i, extra) ==
    [name |-> IndexName[i],
     db_path |-> DbPath,
     rust_handle_ |-> NullHandle,
     lance_path_ |-> <<>>,
     table_name_ |-> <<>>,
     dimension_ |-> Dimension,
     metric_ |-> StrL2,
     nprobes_ |-> 20,
     refine_factor_ |-> 1,
     label_to_rowid_ |-> <<>>,
     rowid_to_label_ |-> <<>>,
     has_pending_deletes_ |-> FALSE,
     has_extra_columns_ |-> extra,
     root_block_ptr_ |-> 0,
     is_dirty_ |-> FALSE]

\* a database instance into which no extension is loaded
NoRegistry == [index_types |-> {}, table_functions |-> {}, optimizer_extensions |-> {}]

\* what LoadInternal registers: the index type, the table functions of
\* RegisterLanceSearchFunction, RegisterLanceCreateAnnIndexFunction and
\* RegisterLanceInfoFunction, and the optimizer extension
LoadInternal ==
    [index_types |-> {"LANCE"},
     table_functions |-> {"lance_search", "lance_create_ann_index", "lance_info"},
     optimizer_extensions |-> {"LanceOptimizerExtension"}]

\* no other index object exists
NoSource == [held |-> FALSE, ix |-> NewIndex("s", FALSE), e |-> EmptyDataset,
             removed |-> {}, calls |-> <<>>]

\* no query is being planned
NoQuery ==
    /\ registry = LoadInternal
    /\ source = NoSource
    /\ table = [r \in RowIds |-> [p |-> 0, s |-> 0]]
    /\ catalog = <<>>
    /\ original = <<>>
    /\ tree = <<>>
    /\ phase = "idle"
    /\ output = <<>>

\* a CreateLanceGlobalSinkState as its member initialisers leave it
NoSink ==
    [rust_handle |-> NullHandle, label_to_rowid |-> <<>>, rowid_to_label |-> <<>>,
     has_extra_columns |-> FALSE]

\* the index object idx exists and is the only object of the model that can
\* hold the handle of its dataset; no bulk build is running
NoBuild ==
    /\ sink = NoSink
    /\ life = [sink |-> "none", index |-> "alive", open |-> idx.rust_handle_ # NullHandle,
               closed_twice |-> FALSE, dropped |-> FALSE]

\* a step of the index object while it alone can hold the handle: the engine
\* has a handle allocated exactly when the object holds one
TrackIndex == life' = [life EXCEPT !.open = (idx'.rust_handle_ # NullHandle)]

\* no index scan is running
NoScanState == [state |-> "none", results |-> <<>>, offset |-> 0, searches |-> 0,
                fetched |-> <<>>, batches |-> <<>>, cardinality |-> -1, visible |-> {}]

NoScan == scan = NoScanState

NoOp == [op |-> "none", rows |-> <<>>, arg |-> <<>>, status |-> "ok", calls |-> <<>>,
         result |-> <<>>, short_read |-> FALSE]

Call(fn, arg) == [fn |-> fn, arg |-> arg]

\* the dataset at the backing location of an index
DatasetOf(ix) == CHOOSE i \in IndexIds : IndexName[i] = ix.name

(***************************************************************************)
(* LanceIndex::GetLancePath                                                *)
(***************************************************************************)
\* MakeUniqueTempPath: the directory of an index of an in-memory database
MakeUniqueTempPath(sanitized_name, addr) ==
    StrTmpDir \o StrTempPrefix \o StrPid \o <<95>> \o sanitized_name \o <<95>> \o addr

\* the path is computed once and kept in lance_path_; ix.db_path is
\* storage_manager.GetDBPath() of the index's database
GetLancePath(ix, addr) ==
    IF ix.lance_path_ # <<>> THEN [ix |-> ix, path |-> ix.lance_path_]
    ELSE IF ix.db_path = InMemoryPath
         THEN [ix |-> [ix EXCEPT !.lance_path_ =
                                     MakeUniqueTempPath(SanitizeIndexName(ix.name), addr)],
               path |-> MakeUniqueTempPath(SanitizeIndexName(ix.name), addr)]
         ELSE [ix |-> [ix EXCEPT !.lance_path_ =
                                     ix.db_path \o StrLanceDir \o SanitizeIndexName(ix.name)],
               path |-> ix.db_path \o StrLanceDir \o SanitizeIndexName(ix.name)]

(***************************************************************************)
(* LanceIndex::Append                                                      *)
(***************************************************************************)
\* a pass that fills the new slots below the label with 0
AppendMappingZeroFill(m, row_id, label) ==
    LET fwd == IF label >= Len(m.label_to_rowid_)
               THEN m.label_to_rowid_ \o Fill(label + 1 - Len(m.label_to_rowid_), 0)
               ELSE m.label_to_rowid_
    IN  [label_to_rowid_ |-> [fwd EXCEPT ![label + 1] = row_id],
         rowid_to_label_ |-> Put(m.rowid_to_label_, row_id, label)]

\* one pass of the loop that records (row_id, label)
AppendMapping(m, row_id, label) ==
    LET fwd == IF label >= Len(m.label_to_rowid_)
               THEN m.label_to_rowid_ \o Fill(label + 1 - Len(m.label_to_rowid_), NoRow)
               ELSE m.label_to_rowid_
    IN  [label_to_rowid_ |-> [fwd EXCEPT ![label + 1] = row_id],
         rowid_to_label_ |-> Put(m.rowid_to_label_, row_id, label)]

\* a loop that stops one short of the n labels the engine returned
RECURSIVE AppendMappingsShort(_, _, _, _, _)
AppendMappingsShort(m, rows, labels, i, n) ==
    IF i >= n THEN m
    ELSE AppendMappingsShort(AppendMapping(m, rows[i], labels[i]), rows, labels, i + 1, n)

\* the loop over the n labels the engine returned
RECURSIVE AppendMappings(_, _, _, _, _)
AppendMappings(m, rows, labels, i, n) ==
    IF i > n THEN m
    ELSE AppendMappings(AppendMapping(m, rows[i], labels[i]), rows, labels, i + 1, n)

Mappings(ix) == [label_to_rowid_ |-> ix.label_to_rowid_, rowid_to_label_ |-> ix.rowid_to_label_]

WithMappings(ix, m) ==
    [ix EXCEPT !.label_to_rowid_ = m.label_to_rowid_, !.rowid_to_label_ = m.rowid_to_label_]

\* an empty Append that marks the index
AppendEmptyMarksDirty(ix, e) ==
    [ix |-> [ix EXCEPT !.is_dirty_ = TRUE], e |-> e, status |-> "ok", calls |-> <<>>]

\* Append of an empty chunk: return ErrorData {}
AppendEmpty(ix, e) == [ix |-> ix, e |-> e, status |-> "ok", calls |-> <<>>]

\* whether Append creates the dataset: only while the index holds no handle
AppendOpens(ix) == ix.rust_handle_ = NullHandle

\* the whole call; failAt names the engine call that fails, "none" for none
IndexAppend(ix, e, rows, gap, failAt) ==
    LET count == Len(rows)
        opening == AppendOpens(ix)
        createFn == IF ix.has_extra_columns_ THEN "create_from_arrow" ELSE "create"
        addFn == IF ix.has_extra_columns_ THEN "add_batch_arrow" ELSE "add_batch"
        ix1 == IF opening
               THEN [GetLancePath(ix, StackAddr).ix
                        EXCEPT !.table_name_ = SanitizeIndexName(ix.name)]
               ELSE ix
        ix2 == IF opening THEN [ix1 EXCEPT !.rust_handle_ = DatasetOf(ix)] ELSE ix1
        e2 == IF opening THEN [EmptyDataset EXCEPT !.created = TRUE] ELSE e
        calls1 == IF opening THEN <<Call(createFn, <<>>)>> ELSE <<>>
        calls2 == calls1 \o <<Call(addFn, <<>>)>>
        vectors == [i \in 1..count |-> RowVec(rows[i])]
        labels == EngineAddLabels(e2, count, gap)
        n == count
        m == AppendMappings(Mappings(ix2), rows, labels, 1, n)
    IN  IF count = 0
        THEN AppendEmpty(ix, e)
        ELSE IF opening /\ failAt = "create"
        THEN [ix |-> ix1, e |-> e, status |-> "error", calls |-> calls1]
        ELSE IF failAt = "add"
        THEN [ix |-> ix2, e |-> e2, status |-> "error", calls |-> calls2]
        ELSE [ix |-> [WithMappings(ix2, m) EXCEPT !.is_dirty_ = TRUE],
              e |-> EngineAddBatch(e2, vectors, gap),
              status |-> "ok", calls |-> calls2]

(***************************************************************************)
(* LanceIndex::Delete                                                      *)
(***************************************************************************)
\* a Delete pass that leaves the reverse entry in place
DeleteMappingKeepReverse(d, row_id) ==
    IF row_id \in DOMAIN d.rowid_to_label_
    THEN LET label == d.rowid_to_label_[row_id]
         IN  [d EXCEPT !.label_to_rowid_[label + 1] = NoRow,
                       !.labels_to_delete = Append(@, label)]
    ELSE d

\* a Delete pass that leaves the forward slot in place
DeleteMappingKeepForward(d, row_id) ==
    IF row_id \in DOMAIN d.rowid_to_label_
    THEN [d EXCEPT !.rowid_to_label_ = Erase(@, row_id),
                   !.labels_to_delete = Append(@, d.rowid_to_label_[row_id])]
    ELSE d

\* a Delete pass that sends a label to the engine for a row id it does not map
DeleteMappingUnmapped(d, row_id) ==
    IF row_id \in DOMAIN d.rowid_to_label_
    THEN [label_to_rowid_ |-> [d.label_to_rowid_ EXCEPT ![d.rowid_to_label_[row_id] + 1] = NoRow],
          rowid_to_label_ |-> Erase(d.rowid_to_label_, row_id),
          labels_to_delete |-> Append(d.labels_to_delete, d.rowid_to_label_[row_id])]
    ELSE [d EXCEPT !.labels_to_delete = Append(@, NoRow)]

\* a Delete pass that collects the label of a row id twice
DeleteMappingLabelTwice(d, row_id) ==
    IF row_id \in DOMAIN d.rowid_to_label_
    THEN [label_to_rowid_ |-> [d.label_to_rowid_ EXCEPT ![d.rowid_to_label_[row_id] + 1] = NoRow],
          rowid_to_label_ |-> Erase(d.rowid_to_label_, row_id),
          labels_to_delete |-> d.labels_to_delete
                                  \o <<d.rowid_to_label_[row_id], d.rowid_to_label_[row_id]>>]
    ELSE d

\* one pass of the loop that resolves a row id and unmaps it
DeleteMapping(d, row_id) ==
    IF row_id \in DOMAIN d.rowid_to_label_
    THEN LET label == d.rowid_to_label_[row_id]
         IN  [label_to_rowid_ |->
                  IF label >= 0 /\ label < Len(d.label_to_rowid_)
                  THEN [d.label_to_rowid_ EXCEPT ![label + 1] = NoRow]
                  ELSE d.label_to_rowid_,
              rowid_to_label_ |-> Erase(d.rowid_to_label_, row_id),
              labels_to_delete |-> Append(d.labels_to_delete, label)]
    ELSE d


RECURSIVE DeleteMappings(_, _, _, _)
DeleteMappings(d, rows, i, count) ==
    IF i > count THEN d
    ELSE DeleteMappings(DeleteMapping(d, rows[i]), rows, i + 1, count)

\* the whole call; fail says whether the engine's delete_batch fails
IndexDelete(ix, e, rows, fail) ==
    LET count == Len(rows)
        d == DeleteMappings([label_to_rowid_ |-> ix.label_to_rowid_,
                             rowid_to_label_ |-> ix.rowid_to_label_,
                             labels_to_delete |-> <<>>], rows, 1, count)
        ix1 == WithMappings(ix, d)
        calling == ix.rust_handle_ # NullHandle /\ d.labels_to_delete # <<>>
        calls == IF calling THEN <<Call("delete_batch", d.labels_to_delete)>> ELSE <<>>
    IN  IF count = 0
        THEN [ix |-> ix, e |-> e, status |-> "ok", calls |-> <<>>]
        ELSE IF calling /\ fail
        THEN [ix |-> ix1, e |-> e, status |-> "error", calls |-> calls]
        ELSE [ix |-> [ix1 EXCEPT !.has_pending_deletes_ = IF calling THEN TRUE ELSE @,
                                 !.is_dirty_ = TRUE],
              e |-> IF calling THEN EngineDeleteBatch(e, d.labels_to_delete) ELSE e,
              status |-> "ok", calls |-> calls]

(***************************************************************************)
(* LanceIndex::Search                                                      *)
(***************************************************************************)
\* a result loop that reports the engine's labels as row ids
SearchTranslateLabels(ix, found, i) ==
    [j \in 1..Len(found) |-> [row_id |-> found[j].label, distance |-> found[j].distance]]

\* the loop that turns the engine's (label, distance) pairs into results
RECURSIVE SearchTranslate(_, _, _)
SearchTranslate(ix, found, i) ==
    IF i > Len(found) THEN <<>>
    ELSE LET label == found[i].label
             rest == SearchTranslate(ix, found, i + 1)
         IN  IF label >= 0 /\ label < Len(ix.label_to_rowid_)
             THEN <<[row_id |-> ix.label_to_rowid_[label + 1],
                     distance |-> found[i].distance]>> \o rest
             ELSE rest

\* a Search that checks the dimension only
SearchCallsEngineAnyHandle(ix, query) == Len(query) = ix.dimension_

\* whether Search reaches the engine at all
SearchCallsEngine(ix, query) ==
    ~(ix.rust_handle_ = NullHandle \/ Len(query) # ix.dimension_)

\* vector<int64_t> labels(k) of a negative k throws std::length_error
\* before the engine is called
SearchLengthError(ix, query, k) == SearchCallsEngine(ix, query) /\ k < 0

\* every result Search(query, k) may return when the engine call succeeds;
\* a call that throws returns none
IndexSearch(ix, e, query, k) ==
    IF ~SearchCallsEngine(ix, query) THEN {<<>>}
    ELSE IF k < 0 THEN {}
    ELSE {SearchTranslate(ix, found, 1) : found \in EngineSearch(e, ix.metric_, query, k)}

(***************************************************************************)
(* LanceIndex::Vacuum                                                      *)
(***************************************************************************)
\* a Vacuum that compacts and leaves has_pending_deletes_ set
IndexVacuumKeepsFlag(ix, e, fail) ==
    IF ~ix.has_pending_deletes_ \/ ix.rust_handle_ = NullHandle
    THEN [ix |-> ix, e |-> e, status |-> "ok", calls |-> <<>>]
    ELSE IF fail
    THEN [ix |-> ix, e |-> e, status |-> "error", calls |-> <<Call("compact", <<>>)>>]
    ELSE [ix |-> [ix EXCEPT !.is_dirty_ = TRUE],
          e |-> EngineCompact(e), status |-> "ok", calls |-> <<Call("compact", <<>>)>>]

IndexVacuum(ix, e, fail) ==
    IF ~ix.has_pending_deletes_ \/ ix.rust_handle_ = NullHandle
    THEN [ix |-> ix, e |-> e, status |-> "ok", calls |-> <<>>]
    ELSE IF fail
    THEN [ix |-> ix, e |-> e, status |-> "error", calls |-> <<Call("compact", <<>>)>>]
    ELSE [ix |-> [ix EXCEPT !.has_pending_deletes_ = FALSE, !.is_dirty_ = TRUE],
          e |-> EngineCompact(e), status |-> "ok", calls |-> <<Call("compact", <<>>)>>]


(***************************************************************************)
(* LanceIndex::MergeIndexes                                                *)
(***************************************************************************)
\* the engine-side merge: the live source rows named by live_source_labels
\* are inserted into the target under fresh labels
EngineMerge(et, es, live_source_labels, gap) ==
    LET old == SelectSeq(live_source_labels, LAMBDA l : l \in EngineLive(es))
        vectors == [i \in 1..Len(old) |-> es.vecs[old[i]]]
    IN  [n |-> Len(old), out_old_labels |-> old,
         out_new_labels |-> EngineAddLabels(et, Len(old), gap),
         e |-> EngineAddBatch(et, vectors, gap)]

\* every label of the other index, live or not
LiveLabelsAll(other) == [i \in 1..Len(other.label_to_rowid_) |-> i - 1]

\* labels of the other index whose forward slot is not the sentinel
LiveLabels(other) ==
    SelectSeq([i \in 1..Len(other.label_to_rowid_) |-> i - 1],
              LAMBDA l : other.label_to_rowid_[l + 1] # NoRow)

\* multi-column path: the loop over the (old, new) pairs the engine returned
RECURSIVE MergeMappings(_, _, _, _, _, _)
MergeMappings(m, old_label_to_rowid, out_old_labels, out_new_labels, i, n) ==
    IF i > n THEN m
    ELSE LET old_label == out_old_labels[i]
             next == IF old_label \notin DOMAIN old_label_to_rowid THEN m
                     ELSE AppendMapping(m, old_label_to_rowid[old_label], out_new_labels[i])
         IN  MergeMappings(next, old_label_to_rowid, out_old_labels, out_new_labels, i + 1, n)

\* vector-only path: positions of the exported vectors that are live in other
MergeLivePositions(other, other_labels) ==
    SelectSeq([i \in 1..Len(other_labels) |-> i],
              LAMBDA i : LET label == other_labels[i]
                         IN  ~(label < 0 \/ label >= Len(other.label_to_rowid_))
                             /\ other.label_to_rowid_[label + 1] # NoRow)

\* a merge that has nothing to import: is_dirty_ = true; return true
MergeNothing(ix) == [ix EXCEPT !.is_dirty_ = TRUE]

\* the whole call on target ix with source other; failAt names the failing engine call
MergeIndexes(ix, other, et, es, gap, failAt) ==
    LET dirty == MergeNothing(ix)
        \* multi-column path
        live_labels == LiveLabels(other)
        old_label_to_rowid == [l \in Range(live_labels) |-> other.label_to_rowid_[l + 1]]
        mg == EngineMerge(et, es, live_labels, gap)
        m1 == MergeMappings(Mappings(ix), old_label_to_rowid,
                            mg.out_old_labels, mg.out_new_labels, 1, mg.n)
        \* vector-only path
        all == EngineGetAllVectors(es)
        other_vec_count == Len(all.labels)
        pos == MergeLivePositions(other, all.labels)
        live_vectors == [j \in 1..Len(pos) |-> all.vectors[pos[j]]]
        live_rowids == [j \in 1..Len(pos) |-> other.label_to_rowid_[all.labels[pos[j]] + 1]]
        num == Len(live_rowids)
        new_labels == EngineAddLabels(et, num, gap)
        m2 == AppendMappings(Mappings(ix), live_rowids, new_labels, 1, num)
        get1 == <<Call("get_all_vectors", <<>>)>>
        get2 == get1 \o get1
    IN  IF other.rust_handle_ = NullHandle \/ ix.rust_handle_ = NullHandle
        THEN [ix |-> dirty, e |-> et, status |-> "ok", calls |-> <<>>]
        ELSE IF ix.has_extra_columns_
        THEN IF live_labels = <<>>
             THEN [ix |-> dirty, e |-> et, status |-> "ok", calls |-> <<>>]
             ELSE IF failAt = "merge"
             THEN [ix |-> ix, e |-> et, status |-> "error", calls |-> <<Call("merge", live_labels)>>]
             ELSE [ix |-> [WithMappings(ix, m1) EXCEPT !.is_dirty_ = TRUE], e |-> mg.e,
                   status |-> "ok", calls |-> <<Call("merge", live_labels)>>]
        ELSE IF failAt = "get_count"
        THEN [ix |-> ix, e |-> et, status |-> "error", calls |-> get1]
        ELSE IF other_vec_count <= 0
        THEN [ix |-> dirty, e |-> et, status |-> "ok", calls |-> get1]
        ELSE IF failAt = "get_all"
        THEN [ix |-> ix, e |-> et, status |-> "error", calls |-> get2]
        ELSE IF live_rowids = <<>>
        THEN [ix |-> dirty, e |-> et, status |-> "ok", calls |-> get2]
        ELSE IF failAt = "add"
        THEN [ix |-> ix, e |-> et, status |-> "error",
              calls |-> get2 \o <<Call("add_batch", <<>>)>>]
        ELSE [ix |-> [WithMappings(ix, m2) EXCEPT !.is_dirty_ = TRUE],
              e |-> EngineAddBatch(et, live_vectors, gap),
              status |-> "ok", calls |-> get2 \o <<Call("add_batch", <<>>)>>]

\* the engine calls a merge reaches before it ends, by path
MergeFailPoints(ix) ==
    IF ix.has_extra_columns_ THEN {"none", "merge"} ELSE {"none", "get_count", "get_all", "add"}

\* a merge that takes the other index's mapping tables for itself
MergeIndexesOtherDrained(ix, other, es, failAt) ==
    [ix |-> [other EXCEPT !.label_to_rowid_ = <<>>, !.rowid_to_label_ = <<>>],
     e |-> es, calls |-> <<>>]

\* what the call does to the other index: MergeIndexes reads its handle and
\* its forward table and assigns none of its members; the engine calls that
\* take its handle are merge (as the source) and get_all_vectors, which read
\* the dataset
MergeIndexesOther(ix, other, es, failAt) ==
    LET get1 == <<Call("get_all_vectors", <<>>)>>
        calls == IF other.rust_handle_ = NullHandle \/ ix.rust_handle_ = NullHandle
                 THEN <<>>
                 ELSE IF ix.has_extra_columns_
                 THEN IF LiveLabels(other) = <<>> THEN <<>>
                      ELSE <<Call("merge", LiveLabels(other))>>
                 ELSE IF failAt = "get_count" \/ Len(EngineGetAllVectors(es).labels) <= 0
                 THEN get1
                 ELSE get1 \o get1
    IN  [ix |-> other, e |-> es, calls |-> calls]

(***************************************************************************)
(* LinkedBlock storage: a chain of fixed-size blocks of bytes              *)
(***************************************************************************)
\* LinkedBlock::BLOCK_DATA_SIZE, scaled down so that an image spans blocks
BlockDataSize == 16

\* a segment as FixedSizeAllocator::New hands it out: zeroed, no successor
NewBlock == [next_block |-> 0, data |-> Fill(BlockDataSize, 0)]

\* the little-endian bytes of an integer of the given width (two's complement)
RECURSIVE ToBytes(_, _)
ToBytes(v, width) ==
    IF width = 0 THEN <<>>
    ELSE <<v % 256>> \o ToBytes((v - (v % 256)) \div 256, width - 1)

\* the unsigned integer held by little-endian bytes
RECURSIVE FromBytes(_)
FromBytes(bytes) ==
    IF bytes = <<>> THEN 0 ELSE bytes[1] + 256 * FromBytes(Tail(bytes))

\* the largest integer the model holds, 2^31 - 1
MaxInt == 65536 * 32767 + 65535

\* the signed integer held by little-endian bytes (two's complement of the
\* width Len(bytes)); a value of a 64-bit field outside the 32-bit integers
\* of the model is given as the nearest integer the model holds
FromBytesSigned(bytes) ==
    LET n == Len(bytes)
        negative == n > 0 /\ bytes[n] >= 128
        magnitude == [j \in 1..n |-> IF negative THEN 255 - bytes[j] ELSE bytes[j]]
        fits == /\ \A j \in 5..n : magnitude[j] = 0
                /\ n >= 4 => magnitude[4] < 128
    IN  IF n = 0 THEN 0
        ELSE IF ~negative THEN (IF fits THEN FromBytes(SubSeq(magnitude, 1, Min(n, 4)))
                                ELSE MaxInt)
        ELSE IF fits THEN -1 - FromBytes(SubSeq(magnitude, 1, Min(n, 4)))
        ELSE -1 - MaxInt

\* a Write that allocates a block at every block boundary, linked or not
RECURSIVE WriterWriteAlwaysNew(_, _, _)
WriterWriteAlwaysNew(w, buffer, written) ==
    IF ~(written < Len(buffer)) THEN w
    ELSE LET block == w.alloc[w.current_]
             to_write == Min(Len(buffer) - written, BlockDataSize - w.pos_)
             data == [j \in 1..BlockDataSize |->
                        IF j > w.pos_ /\ j <= w.pos_ + to_write
                        THEN buffer[written + (j - w.pos_)] ELSE block.data[j]]
             full == w.pos_ + to_write = BlockDataSize
             next == Len(w.alloc) + 1
             alloc1 == [w.alloc EXCEPT ![w.current_] =
                           [next_block |-> IF full THEN next ELSE block.next_block,
                            data |-> data]]
         IN  WriterWriteAlwaysNew([alloc |-> IF full THEN Append(alloc1, NewBlock) ELSE alloc1,
                                   current_ |-> IF full THEN next ELSE w.current_,
                                   pos_ |-> IF full THEN 0 ELSE w.pos_ + to_write],
                                  buffer, written + to_write)

\* LinkedBlockWriter::Write: the loop, from `written` bytes on
RECURSIVE WriterWrite(_, _, _)
WriterWrite(w, buffer, written) ==
    IF ~(written < Len(buffer)) THEN w
    ELSE LET block == w.alloc[w.current_]
             to_write == Min(Len(buffer) - written, BlockDataSize - w.pos_)
             data == [j \in 1..BlockDataSize |->
                        IF j > w.pos_ /\ j <= w.pos_ + to_write
                        THEN buffer[written + (j - w.pos_)] ELSE block.data[j]]
             pos == w.pos_ + to_write
             full == pos = BlockDataSize
             grow == full /\ block.next_block = 0
             next == IF grow THEN Len(w.alloc) + 1 ELSE block.next_block
             alloc1 == [w.alloc EXCEPT ![w.current_] =
                           [next_block |-> IF full THEN next ELSE block.next_block,
                            data |-> data]]
             alloc2 == IF grow THEN Append(alloc1, NewBlock) ELSE alloc1
         IN  WriterWrite([alloc |-> alloc2,
                          current_ |-> IF full THEN next ELSE w.current_,
                          pos_ |-> IF full THEN 0 ELSE pos],
                         buffer, written + to_write)

\* the Write calls of one PersistToDisk, in order
RECURSIVE WriterWriteAll(_, _)
WriterWriteAll(w, buffers) ==
    IF buffers = <<>> THEN w
    ELSE WriterWriteAll(WriterWrite(w, Head(buffers), 0), Tail(buffers))

\* LinkedBlockReader::Read into `buffer`: the loop, from total_read bytes on
RECURSIVE ReaderRead(_, _, _, _)
ReaderRead(blocks, r, buffer, total_read) ==
    IF ~(total_read < Len(buffer) /\ ~r.exhausted_)
    THEN [r |-> r, buffer |-> buffer, total_read |-> total_read]
    ELSE LET block == blocks[r.current_]
             to_read == Min(Len(buffer) - total_read, BlockDataSize - r.pos_)
             filled == [j \in 1..Len(buffer) |->
                          IF j > total_read /\ j <= total_read + to_read
                          THEN block.data[r.pos_ + (j - total_read)] ELSE buffer[j]]
             pos == r.pos_ + to_read
             full == pos = BlockDataSize
         IN  ReaderRead(blocks,
                        [current_ |-> IF full /\ block.next_block # 0
                                      THEN block.next_block ELSE r.current_,
                         pos_ |-> IF full THEN 0 ELSE pos,
                         exhausted_ |-> full /\ block.next_block = 0],
                        filled, total_read + to_read)

\* the Read calls of one reader for buffers of the given lengths, in order
RECURSIVE ReaderReadAll(_, _, _)
ReaderReadAll(blocks, r, lengths) ==
    IF lengths = <<>> THEN <<>>
    ELSE \* the buffer handed to Read is zero-filled
         LET got == ReaderRead(blocks, r, Fill(Head(lengths), 0), 0)
         IN  <<got>> \o ReaderReadAll(blocks, got.r, Tail(lengths))

(***************************************************************************)
(* LanceIndex::PersistToDisk, SerializeToDisk, SerializeToWAL              *)
(***************************************************************************)
RECURSIVE RowIdBytes(_)
RowIdBytes(rowids) ==
    IF rowids = <<>> THEN <<>> ELSE ToBytes(Head(rowids), 8) \o RowIdBytes(Tail(rowids))

\* the buffers PersistToDisk hands to the writer, in order
PersistBuffers(ix) ==
    LET table_name == IF ix.table_name_ = <<>> THEN SanitizeIndexName(ix.name)
                      ELSE ix.table_name_
        num_mappings == Len(ix.label_to_rowid_)
        lance_path == GetLancePath(ix, StackAddr).path
    IN  <<ToBytes(Len(table_name), 4), table_name, ToBytes(num_mappings, 8)>>
        \o (IF num_mappings > 0 THEN <<RowIdBytes(ix.label_to_rowid_)>> ELSE <<>>)
        \o <<ToBytes(ix.dimension_, 4), ToBytes(ix.nprobes_, 4), ToBytes(ix.refine_factor_, 4),
              ToBytes(Len(ix.metric_), 4), ix.metric_,
              ToBytes(Len(lance_path), 4), lance_path>>

PersistToDisk(ix, blocks) ==
    IF ~ix.is_dirty_ \/ ix.rust_handle_ = NullHandle
    THEN [ix |-> ix, alloc |-> blocks]
    ELSE LET fresh == ix.root_block_ptr_ = 0
             root == IF fresh THEN Len(blocks) + 1 ELSE ix.root_block_ptr_
             w == WriterWriteAll([alloc |-> IF fresh THEN Append(blocks, NewBlock) ELSE blocks,
                                  current_ |-> root, pos_ |-> 0],
                                 PersistBuffers(ix))
         IN  [ix |-> [GetLancePath(ix, StackAddr).ix
                         EXCEPT !.root_block_ptr_ = root,
                                !.is_dirty_ = FALSE],
              alloc |-> w.alloc]

\* the IndexStorageInfo both Serialize calls return
StorageInfo(ix) == [valid |-> TRUE, root |-> ix.root_block_ptr_]

NoInfo == [valid |-> FALSE, root |-> 0]

(***************************************************************************)
(* LanceIndex::LoadFromStorage                                             *)
(***************************************************************************)
\* std::string::c_str(): the characters before the first NUL
CStr(str) ==
    IF \E j \in 1..Len(str) : str[j] = 0
    THEN SubSeq(str, 1, (CHOOSE j \in 1..Len(str) :
                            str[j] = 0 /\ \A h \in 1..(j - 1) : str[h] # 0) - 1)
    ELSE str

\* the loop that rebuilds the reverse mapping from the forward mapping
RECURSIVE RebuildReverse(_, _, _)
RebuildReverse(rev, fwd, i) ==
    IF i > Len(fwd) THEN rev
    ELSE RebuildReverse(IF fwd[i] # NoRow THEN Put(rev, fwd[i], i - 1) ELSE rev, fwd, i + 1)

\* the index object after the Read calls `reads` and the open call
LoadedIndex(ix, storage_info, opened, reads) ==
    LET label_to_rowid == [i \in 1..FromBytes(reads[3].buffer) |->
                              FromBytesSigned(SubSeq(reads[4].buffer, 8 * (i - 1) + 1, 8 * i))]
        read == [ix EXCEPT !.root_block_ptr_ = storage_info.root,
                           !.table_name_ = reads[2].buffer,
                           !.label_to_rowid_ = label_to_rowid,
                           !.dimension_ = FromBytesSigned(reads[5].buffer),
                           !.nprobes_ = FromBytesSigned(reads[6].buffer),
                           !.refine_factor_ = FromBytesSigned(reads[7].buffer),
                           !.metric_ = reads[9].buffer,
                           !.lance_path_ = reads[11].buffer,
                           !.rowid_to_label_ = RebuildReverse(ix.rowid_to_label_, label_to_rowid, 1)]
        short == \E j \in 1..Len(reads) : reads[j].total_read < Len(reads[j].buffer)
        calls == <<Call("open", [db_path |-> CStr(reads[11].buffer),
                                 table_name |-> CStr(reads[2].buffer)])>>
    IN  IF ~storage_info.valid
        THEN [ix |-> ix, status |-> "ok", short_read |-> FALSE, calls |-> <<>>]
        ELSE IF opened.handle = NullHandle
        THEN [ix |-> read, status |-> "error", short_read |-> short, calls |-> calls]
        ELSE [ix |-> [read EXCEPT !.rust_handle_ = opened.handle,
                                  !.has_extra_columns_ = opened.extra,
                                  !.is_dirty_ = FALSE],
              status |-> "ok", short_read |-> short, calls |-> calls]

\* the buffer of the i-th Read call, as it is before the call: the lengths
\* come from the reads before it, the parameters start at the constructor's
\* values, and the mappings are read only when their count is positive
LoadBuffer(ix, reads, i) ==
    CASE i \in {1, 8, 10} -> ToBytes(0, 4)
      [] i = 2 -> Fill(FromBytes(reads[1].buffer), 0)
      [] i = 3 -> ToBytes(0, 8)
      [] i = 4 -> Fill(FromBytes(reads[3].buffer) * 8, 0)
      [] i = 5 -> ToBytes(ix.dimension_, 4)
      [] i = 6 -> ToBytes(ix.nprobes_, 4)
      [] i = 7 -> ToBytes(ix.refine_factor_, 4)
      [] i = 9 -> Fill(FromBytes(reads[8].buffer), 0)
      [] OTHER -> Fill(FromBytes(reads[10].buffer), 0)

\* the Read calls of LoadFromStorage from the i-th on, on reader r
RECURSIVE LoadReads(_, _, _, _, _)
LoadReads(ix, blocks, r, reads, i) ==
    IF i > 11 THEN reads
    ELSE LET got == ReaderRead(blocks, r, LoadBuffer(ix, reads, i), 0)
         IN  LoadReads(ix, blocks, got.r, Append(reads, got), i + 1)

\* the constructor's load of a new index object ix from the chain at
\* info.root; `opened` is the engine's answer to the open call: a handle
\* with the dataset's schema flag, or NullHandle for the failure sentinel
LoadFromStorage(ix, storage_info, blocks, opened) ==
    LoadedIndex(ix, storage_info, opened,
                LoadReads(ix, blocks,
                          [current_ |-> storage_info.root, pos_ |-> 0, exhausted_ |-> FALSE],
                          <<>>, 1))

(***************************************************************************)
(* The index state machine                                                 *)
(***************************************************************************)
\* the host gives every row its own row id: a row id the index still maps
\* is not handed to it again, by Append or through a merged index
Mapped == DOMAIN idx.rowid_to_label_

\* the index objects the host merges into the table's index: a second
\* instance after one Append and at most one Delete, with its dataset
AppendedSources(extra) ==
    {IndexAppend(NewIndex("s", extra), EmptyDataset, rows, gap, "none") :
        rows \in DistinctSeqs(RowIds, 1, MaxBatch), gap \in 0..MaxGap}

SourcesWith(extra) ==
    {[ix |-> NewIndex("s", extra), e |-> EmptyDataset, removed |-> {}]}
    \cup {[ix |-> a.ix, e |-> a.e, removed |-> {}] : a \in AppendedSources(extra)}
    \cup UNION {{[ix |-> d.ix, e |-> d.e, removed |-> {r}] :
                   d \in {IndexDelete(a.ix, a.e, <<r>>, fail) : fail \in BOOLEAN}} :
                <<a, r>> \in {<<a, r>> \in AppendedSources(extra) \X RowIds :
                                r \in DOMAIN a.ix.rowid_to_label_}}

\* what a merge step records of its source: whether it had an engine
\* handle, the row ids it mapped and the row ids deleted from it
MergedSource(src) ==
    [active |-> src.ix.rust_handle_ # NullHandle,
     live |-> DOMAIN src.ix.rowid_to_label_,
     removed |-> src.removed]

SourceIndexes == [extra \in BOOLEAN |-> SourcesWith(extra)]

Init ==
    /\ \E extra \in BOOLEAN : idx = NewIndex("t", extra)
    /\ eng = EmptyDataset
    /\ deleted = {}
    /\ lastOp = NoOp
    /\ alloc = <<>>
    /\ info = NoInfo
    /\ NoQuery
    /\ NoBuild
    /\ NoScan

Done(op, rows, r) ==
    [op |-> op, rows |-> rows, arg |-> <<>>, status |-> r.status, calls |-> r.calls,
     result |-> <<>>, short_read |-> FALSE]

AppendStep(batches, gaps, failAts) ==
    \E rows \in batches, gap \in gaps, failAt \in failAts :
       /\ eng.next + gap + Len(rows) <= MaxLabel
       /\ \E r \in {IndexAppend(idx, eng, rows, gap, failAt)} :
           /\ failAt # "none" => r.status = "error"
           /\ idx' = r.ix
           /\ eng' = r.e
           /\ deleted' = IF r.status = "ok" THEN deleted \ Range(rows) ELSE deleted
           /\ lastOp' = Done("Append", rows, r)

DoAppend ==
    /\ AppendStep(DistinctSeqs(RowIds \ Mapped, 0, MaxBatch), 0..MaxGap,
                  {"none", "create", "add"})
    /\ UNCHANGED <<storageVars, queryVars, sink, scan>>
    /\ TrackIndex

DeleteStep(batches) ==
    \E rows \in batches, fail \in BOOLEAN :
       \E r \in {IndexDelete(idx, eng, rows, fail)} :
           /\ fail => r.status = "error"
           /\ idx' = r.ix
           /\ eng' = r.e
           /\ deleted' = deleted \cup Range(rows)
           /\ lastOp' = Done("Delete", rows, r)

DoDelete ==
    /\ DeleteStep(AnySeqs(RowIds, 0, MaxBatch))
    /\ UNCHANGED <<storageVars, queryVars, sink, scan>>
    /\ TrackIndex

SearchStep(queries, ks) ==
    /\ \E query \in queries, k \in ks, fail \in BOOLEAN :
          LET calling == SearchCallsEngine(idx, query) /\ ~SearchLengthError(idx, query, k)
              calls == IF calling THEN <<Call("search", <<>>)>> ELSE <<>>
          IN  /\ fail => (calling \/ SearchLengthError(idx, query, k))
              /\ SearchLengthError(idx, query, k) => fail
              /\ IF fail
                 THEN lastOp' = [op |-> "Search", rows |-> <<>>,
                                 arg |-> [query |-> query, k |-> k], status |-> "error",
                                 calls |-> calls, result |-> <<>>, short_read |-> FALSE]
                 ELSE \E res \in IndexSearch(idx, eng, query, k) :
                         lastOp' = [op |-> "Search", rows |-> <<>>,
                                    arg |-> [query |-> query, k |-> k], status |-> "ok",
                                    calls |-> calls, result |-> res, short_read |-> FALSE]
    /\ UNCHANGED <<idx, eng, deleted, storageVars, queryVars, sink, scan>>
    /\ TrackIndex

DoSearch == SearchStep(Queries, -1..MaxK)

DoVacuum ==
    /\ \E fail \in BOOLEAN :
          \E r \in {IndexVacuum(idx, eng, fail)} :
              /\ fail => r.status = "error"
              /\ idx' = r.ix
              /\ eng' = r.e
              /\ lastOp' = Done("Vacuum", <<>>, r)
    /\ UNCHANGED <<deleted, storageVars, queryVars, sink, scan>>
    /\ TrackIndex

MergeStep(sources) ==
    /\ UNCHANGED <<storageVars, queryVars, sink, scan>>
    /\ \E src \in sources :
       /\ DOMAIN src.ix.rowid_to_label_ \cap Mapped = {}
       /\ \E gap \in 0..MaxGap :
          /\ eng.next + gap + Len(src.ix.label_to_rowid_) <= MaxLabel
          /\ \E failAt \in MergeFailPoints(idx) :
             \E r \in {MergeIndexes(idx, src.ix, eng, src.e, gap, failAt)} :
                /\ failAt # "none" => r.status = "error"
                /\ idx' = r.ix
                /\ eng' = r.e
                /\ deleted' = IF r.status = "ok" /\ idx.rust_handle_ # NullHandle
                              THEN deleted \ DOMAIN src.ix.rowid_to_label_ ELSE deleted
                /\ lastOp' = [Done("Merge", <<>>, r) EXCEPT !.arg = MergedSource(src)]
                /\ TrackIndex

DoMerge == MergeStep(SourceIndexes[idx.has_extra_columns_])

Next ==
    \/ DoAppend
    \/ DoDelete
    \/ DoSearch
    \/ DoVacuum
    \/ DoMerge

vars == <<idx, eng, deleted, lastOp, alloc, info, table, catalog, original, tree, phase, output,
          sink, life, scan, registry, source>>

Spec == Init /\ [][Next]_vars

(***************************************************************************)
(* The index with its checkpoints: Append and Delete of single rows, the   *)
(* two Serialize calls, a restart that loads the index from the last       *)
(* IndexStorageInfo, and the loss of the tail of the metadata chain        *)
(***************************************************************************)
\* the index object is in use: it exists, the chain has lost no block since
\* the last Serialize, and the object was not loaded from a chain that had
Serving == life.index = "alive" /\ lastOp.op # "Truncate" /\ ~lastOp.short_read

\* the rows the table has held so far; the host numbers its rows upwards
Stored == {r \in RowIds : RowVec(r) \in Range(eng.vecs)}

NewRows == {r \in RowIds \ Stored : \A x \in RowIds \ Stored : r <= x}

StoreAppend ==
    /\ Serving
    /\ AppendStep({<<r>> : r \in NewRows}, 0..MaxGap, {"none"})
    /\ UNCHANGED <<storageVars, queryVars, sink, scan>>
    /\ TrackIndex

StoreDelete ==
    /\ Serving
    /\ DeleteStep({<<r>> : r \in Stored})
    /\ UNCHANGED <<storageVars, queryVars, sink, scan>>
    /\ TrackIndex

SerializeStep(op) ==
    \E r \in {PersistToDisk(idx, alloc)} :
        /\ Serving
        /\ idx' = r.ix
        /\ alloc' = r.alloc
        /\ info' = StorageInfo(r.ix)
        /\ lastOp' = [NoOp EXCEPT !.op = op]
        /\ UNCHANGED <<eng, deleted, queryVars, sink, scan>>
        /\ TrackIndex

SerializeToDisk == SerializeStep("SerializeToDisk")

SerializeToWAL == SerializeStep("SerializeToWAL")

\* the chain loses every block after block p, while the index is at rest
Truncate ==
    /\ lastOp.op \in {"SerializeToDisk", "SerializeToWAL"}
    /\ \E p \in 1..Len(alloc) :
          /\ alloc[p].next_block # 0
          /\ alloc' = [alloc EXCEPT ![p].next_block = 0]
    /\ lastOp' = [NoOp EXCEPT !.op = "Truncate"]
    /\ UNCHANGED <<idx, eng, deleted, info, queryVars, sink, scan>>
    /\ TrackIndex

\* the engine's answer to open(path, table_name): the dataset of the index
\* when the path names it; whatever lies at any other path; or the sentinel
EngineOpen(db_path, ok) ==
    IF ~ok THEN [handle |-> NullHandle, extra |-> FALSE, e |-> eng]
    ELSE IF idx.rust_handle_ # NullHandle /\ db_path = CStr(idx.lance_path_)
    THEN [handle |-> idx.rust_handle_, extra |-> idx.has_extra_columns_, e |-> eng]
    ELSE [handle |-> "x", extra |-> FALSE, e |-> [EmptyDataset EXCEPT !.created = TRUE]]

\* the host restarts: the index object is constructed again with the stored
\* IndexStorageInfo and replaces the one in memory. When the constructor
\* throws there is no index object: life.index is "none" and idx holds no
\* handle and no mapping; the dataset stays as it is
Load ==
    /\ life.index = "alive"
    /\ info.valid
    /\ ~lastOp.short_read
    /\ \E ok \in BOOLEAN, fresh \in {NewIndex("t", idx.has_extra_columns_)} :
          \E path \in {IF info.root = 0 THEN <<>>
                       ELSE LoadFromStorage(fresh, info, alloc,
                                [handle |-> NullHandle, extra |-> FALSE]).ix.lance_path_} :
             \E opened \in {EngineOpen(CStr(path), ok)} :
                \E r \in {IF info.root = 0
                           THEN [ix |-> idx, status |-> "error", short_read |-> FALSE,
                                 calls |-> <<>>]
                           ELSE LoadFromStorage(fresh, info, alloc, opened)} :
                   /\ ~ok => info.root # 0
                   /\ idx' = IF r.status = "ok" THEN r.ix ELSE fresh
                   /\ eng' = IF r.status = "ok" THEN opened.e ELSE eng
                   /\ life' = [life EXCEPT !.index = IF r.status = "ok" THEN "alive"
                                                     ELSE "none",
                                           !.open = r.status = "ok"]
                   /\ lastOp' = [Done("Load", <<>>, r) EXCEPT !.short_read = r.short_read]
    /\ UNCHANGED <<deleted, alloc, info, queryVars, sink, scan>>

NextStorage ==
    \/ StoreAppend
    \/ StoreDelete
    \/ SerializeToDisk
    \/ SerializeToWAL
    \/ Truncate
    \/ Load

SpecStorage == Init /\ [][NextStorage]_vars


(***************************************************************************)
(* The life of an engine handle: bulk build (PhysicalCreateLanceIndex),    *)
(* the index object, CommitDrop and the destructors                       *)
(***************************************************************************)
\* the calls the host makes on the index object while it exists, one row at
\* a time, on the rows 0..MaxLifeRowId of the table; the merged index holds
\* no row or the one row MaxRowId
MaxLifeRowId == 0

LifeRowIds == 0..MaxLifeRowId

LifeSources ==
    {src \in SourceIndexes[idx.has_extra_columns_] :
        /\ src.removed = {}
        /\ DOMAIN src.ix.rowid_to_label_ \subseteq {MaxRowId}
        /\ Len(src.ix.label_to_rowid_) <= 1}

\* lance_free_detached on a stored pointer: the engine releases the handle;
\* freeing a handle that was released before is recorded
FreeHandle(lf) ==
    IF lf.open THEN [lf EXCEPT !.open = FALSE] ELSE [lf EXCEPT !.closed_twice = TRUE]

\* a destructor or CommitDrop: frees the pointer only when it is not null
FreeIfHeld(lf, handle) == IF handle # NullHandle THEN FreeHandle(lf) ELSE lf

\* who holds a non-null pointer to the handle
Owners ==
    {o \in {"sink"} : life.sink \in {"alive", "ended"} /\ sink.rust_handle # NullHandle}
    \cup {o \in {"index"} : life.index = "alive" /\ idx.rust_handle_ # NullHandle}

Event(op, status, calls) == [NoOp EXCEPT !.op = op, !.status = status, !.calls = calls]

\* PhysicalCreateLanceIndex::GetGlobalSinkState: the dataset is created when
\* the build starts; a failed create unwinds and destroys the state
GetGlobalSinkState ==
    /\ life.sink = "none" /\ life.index = "none"
    /\ \E fail \in BOOLEAN :
          LET createFn == IF idx.has_extra_columns_ THEN "create_from_arrow" ELSE "create"
              state == [NoSink EXCEPT !.has_extra_columns = idx.has_extra_columns_]
          IN  IF fail
              THEN /\ sink' = state
                   /\ eng' = eng
                   /\ life' = [life EXCEPT !.sink = "destroyed"]
                   /\ lastOp' = Event("GetGlobalSinkState", "error", <<Call(createFn, <<>>)>>)
              ELSE /\ sink' = [state EXCEPT !.rust_handle = DatasetOf(idx)]
                   /\ eng' = [EmptyDataset EXCEPT !.created = TRUE]
                   /\ life' = [life EXCEPT !.sink = "alive", !.open = TRUE]
                   /\ lastOp' = Event("GetGlobalSinkState", "ok", <<Call(createFn, <<>>)>>)
    /\ UNCHANGED <<idx, deleted, storageVars, queryVars, scan>>

\* the mapping loop of Sink: the row id is pushed onto the forward table
RECURSIVE SinkMappings(_, _, _, _, _)
SinkMappings(state, rows, labels, i, n) ==
    IF i > n THEN state
    ELSE SinkMappings([state EXCEPT !.label_to_rowid = Append(@, rows[i]),
                                    !.rowid_to_label = Put(@, rows[i], labels[i])],
                      rows, labels, i + 1, n)

\* PhysicalCreateLanceIndex::Sink for one chunk; a failed add ends the build
SinkStep(row_ids, max_count, gaps) ==
    /\ life.sink = "alive"
    /\ \E rows \in DistinctSeqs(row_ids \ DOMAIN sink.rowid_to_label, 0, max_count),
          gap \in gaps, fail \in BOOLEAN :
          LET addFn == IF sink.has_extra_columns THEN "add_batch_arrow" ELSE "add_batch"
              count == Len(rows)
              labels == EngineAddLabels(eng, count, gap)
          IN  /\ eng.next + gap + count <= MaxLabel
              /\ fail => count # 0
              /\ IF count = 0
                 THEN /\ UNCHANGED <<sink, eng, life>>
                      /\ lastOp' = Event("Sink", "ok", <<>>)
                 ELSE IF fail
                 THEN /\ UNCHANGED <<sink, eng>>
                      /\ life' = [life EXCEPT !.sink = "ended"]
                      /\ lastOp' = Event("Sink", "error", <<Call(addFn, <<>>)>>)
                 ELSE /\ sink' = SinkMappings(sink, rows, labels, 1, count)
                      /\ eng' = EngineAddBatch(eng, [i \in 1..count |-> RowVec(rows[i])], gap)
                      /\ life' = life
                      /\ lastOp' = [Event("Sink", "ok", <<Call(addFn, <<>>)>>)
                                       EXCEPT !.rows = rows]
    /\ UNCHANGED <<idx, deleted, storageVars, queryVars, scan>>

\* the chunks of a build over a table of one row
SinkChunk == SinkStep(LifeRowIds, 1, {0})

\* the path GetGlobalSinkState gives the dataset of a bulk build; db_path is
\* storage_manager.GetDBPath() of the table's database
SinkLancePath(index_name, db_path, addr) ==
    IF db_path = InMemoryPath
    THEN MakeUniqueTempPath(SanitizeIndexName(index_name), addr)
    ELSE db_path \o StrLanceDir \o SanitizeIndexName(index_name)

\* a handoff that leaves the sink state's pointer in place
FinalizeHandoffKeepsPointer(state, ix) ==
    [index |-> [ix EXCEPT !.rust_handle_ = state.rust_handle,
                          !.label_to_rowid_ = state.label_to_rowid,
                          !.rowid_to_label_ = state.rowid_to_label,
                          !.table_name_ = SanitizeIndexName(ix.name),
                          !.lance_path_ = SinkLancePath(ix.name, ix.db_path, StackAddr),
                          !.is_dirty_ = TRUE],
     state |-> [state EXCEPT !.label_to_rowid = <<>>, !.rowid_to_label = <<>>]]

\* Finalize: the new index object takes the handle and the mappings, the sink
\* state's pointer is nulled
FinalizeHandoff(state, ix) ==
    [index |-> [ix EXCEPT !.rust_handle_ = state.rust_handle,
                          !.label_to_rowid_ = state.label_to_rowid,
                          !.rowid_to_label_ = state.rowid_to_label,
                          !.table_name_ = SanitizeIndexName(ix.name),
                          !.lance_path_ = SinkLancePath(ix.name, ix.db_path, StackAddr),
                          !.is_dirty_ = TRUE],
     state |-> [state EXCEPT !.rust_handle = NullHandle,
                             !.label_to_rowid = <<>>, !.rowid_to_label = <<>>]]

\* how Finalize ends: the index is added to the table; the table is not the
\* main table; an index of that name exists (error, or ignored on conflict);
\* the ALTER TABLE path finds the name or fails
FinalizeOutcomes == {"added", "not_main_table", "exists", "exists_ignored", "alter_fails"}

\* PhysicalCreateLanceIndex::Finalize; when it leaves before AddIndex, the
\* index object it made is destroyed with it
Finalize ==
    /\ life.sink = "alive"
    /\ \E outcome \in FinalizeOutcomes : \E h \in {FinalizeHandoff(sink, idx)} :
          LET status == IF outcome \in {"added", "exists_ignored"} THEN "ok" ELSE "error"
          IN  /\ lastOp' = [Event("Finalize", status, <<>>) EXCEPT !.arg = outcome]
              /\ CASE outcome = "not_main_table" ->
                       /\ UNCHANGED <<sink, idx>>
                       /\ life' = [life EXCEPT !.sink = "ended"]
                   [] outcome = "added" ->
                       /\ sink' = h.state
                       /\ idx' = h.index
                       /\ life' = [life EXCEPT !.sink = "ended", !.index = "alive"]
                   [] OTHER ->
                       /\ sink' = h.state
                       /\ idx' = [h.index EXCEPT !.rust_handle_ = NullHandle]
                       /\ life' = [FreeIfHeld(life, h.index.rust_handle_)
                                     EXCEPT !.sink = "ended", !.index = "destroyed"]
    /\ UNCHANGED <<eng, deleted, storageVars, queryVars, scan>>

\* ~CreateLanceGlobalSinkState, when the build's pipeline is torn down
DestroySink ==
    /\ life.sink \in {"alive", "ended"}
    /\ life' = [FreeIfHeld(life, sink.rust_handle) EXCEPT !.sink = "destroyed"]
    /\ lastOp' = Event("~CreateLanceGlobalSinkState", "ok", <<>>)
    /\ UNCHANGED <<idx, eng, deleted, sink, storageVars, queryVars, scan>>

\* the LanceIndex constructor without storage info (no bulk build)
ConstructIndex ==
    /\ life.sink = "none" /\ life.index = "none"
    /\ life' = [life EXCEPT !.index = "alive"]
    /\ lastOp' = Event("LanceIndex", "ok", <<>>)
    /\ UNCHANGED <<idx, eng, deleted, sink, storageVars, queryVars, scan>>

\* LanceIndex::CommitDrop: frees the handle, removes the dataset's directory
CommitDrop ==
    /\ life.index = "alive"
    /\ idx' = [GetLancePath(idx, StackAddr).ix EXCEPT !.rust_handle_ = NullHandle]
    /\ life' = [FreeIfHeld(life, idx.rust_handle_) EXCEPT !.dropped = TRUE]
    /\ eng' = EmptyDataset
    /\ lastOp' = Event("CommitDrop", "ok", <<>>)
    /\ UNCHANGED <<deleted, sink, storageVars, queryVars, scan>>

\* LanceIndex::~LanceIndex
DestroyIndex ==
    /\ life.index = "alive"
    /\ idx' = [idx EXCEPT !.rust_handle_ = NullHandle]
    /\ life' = [FreeIfHeld(life, idx.rust_handle_) EXCEPT !.index = "destroyed"]
    /\ lastOp' = Event("~LanceIndex", "ok", <<>>)
    /\ UNCHANGED <<eng, deleted, sink, storageVars, queryVars, scan>>

\* a CreateAnnIndex that calls the engine whatever the handle
IndexCreateIndexUnchecked(ix, fn, fail) ==
    [ix |-> ix, status |-> IF fail THEN "error" ELSE "ok", calls |-> <<Call(fn, <<>>)>>]

\* LanceIndex::CreateAnnIndex and LanceIndex::CreateHnswIndex: fn names the
\* engine call
IndexCreateIndex(ix, fn, fail) ==
    IF ix.rust_handle_ = NullHandle
    THEN [ix |-> ix, status |-> "error", calls |-> <<>>]
    ELSE [ix |-> ix, status |-> IF fail THEN "error" ELSE "ok",
          calls |-> <<Call(fn, <<>>)>>]

CreateIndexStep(op, fn) ==
    /\ life.index = "alive"
    /\ \E fail \in BOOLEAN : \E r \in {IndexCreateIndex(idx, fn, fail)} :
          /\ fail => r.calls # <<>>
          /\ idx' = r.ix
          /\ lastOp' = Done(op, <<>>, r)
    /\ UNCHANGED <<eng, deleted, buildVars, storageVars, queryVars, scan>>

CreateAnnIndex == CreateIndexStep("CreateAnnIndex", "create_index")

CreateHnswIndex == CreateIndexStep("CreateHnswIndex", "create_hnsw_index")

LifeAppend ==
    /\ life.index = "alive"
    /\ AppendStep(DistinctSeqs(LifeRowIds \ Mapped, 0, 1), {0}, {"none", "create", "add"})
    /\ UNCHANGED <<storageVars, queryVars, sink, scan>>
    /\ TrackIndex

LifeDelete ==
    /\ life.index = "alive"
    /\ DeleteStep(AnySeqs(LifeRowIds, 1, 1))
    /\ UNCHANGED <<storageVars, queryVars, sink, scan>>
    /\ TrackIndex

LifeSearch == life.index = "alive" /\ SearchStep(Queries, {-1, 1})

LifeVacuum == life.index = "alive" /\ DoVacuum

LifeMerge ==
    /\ life.index = "alive"
    /\ MergeStep(LifeSources)

\* the host persists the index object that CommitDrop left without a handle
LifePersist ==
    /\ life.index = "alive" /\ life.dropped /\ idx.rust_handle_ = NullHandle
    /\ SerializeToDisk

InitLifecycle ==
    /\ \E extra \in BOOLEAN : idx = NewIndex("t", extra)
    /\ eng = EmptyDataset
    /\ deleted = {}
    /\ lastOp = NoOp
    /\ alloc = <<>>
    /\ info = NoInfo
    /\ NoQuery
    /\ NoScan
    /\ sink = NoSink
    /\ life = [sink |-> "none", index |-> "none", open |-> FALSE,
               closed_twice |-> FALSE, dropped |-> FALSE]

NextLifecycle ==
    \/ GetGlobalSinkState
    \/ SinkChunk
    \/ Finalize
    \/ DestroySink
    \/ ConstructIndex
    \/ LifeAppend
    \/ LifeDelete
    \/ LifeSearch
    \/ LifeVacuum
    \/ LifeMerge
    \/ LifePersist
    \/ CreateAnnIndex
    \/ CreateHnswIndex
    \/ CommitDrop
    \/ DestroyIndex

SpecLifecycle == InitLifecycle /\ [][NextLifecycle]_vars

(***************************************************************************)
(* The wrappers around the engine's calls (rust_ffi.cpp)                   *)
(***************************************************************************)
\* the wrappers by what the engine returns: a handle; a count, a label or a
\* dimension; a status
HandleWrappers == {"create", "create_from_arrow", "open"}

CountWrappers == {"add", "add_batch", "add_batch_arrow", "merge", "search", "count",
                  "get_vector", "get_all_vectors"}

StatusWrappers == {"delete", "delete_batch", "create_index", "create_hnsw_index", "compact"}

\* what the engine may answer: a return value and the text it left in err_buf
MaxReturn == 2

ErrorTexts == {<<>>, <<101>>, <<101, 114>>}

\* IOException("Lance <fn>: " + std::string(err_buf))
IOException(fn, err_buf) == [type |-> "IOException", prefix |-> <<"Lance ", fn, ": ">>,
                             message |-> err_buf]

\* what a wrapper hands back after its one engine call
Wrapped(fn, failed, ret, err_buf) ==
    [calls |-> <<Call(fn, <<>>)>>,
     status |-> IF failed THEN "error" ELSE "ok",
     result |-> IF failed THEN IOException(fn, err_buf) ELSE ret]

\* LanceCreateDetached, LanceCreateDetachedFromArrow, LanceOpenDetached
LanceHandleWrapper(fn, handle, err_buf) == Wrapped(fn, handle = NullHandle, handle, err_buf)

\* LanceDetachedAdd .. LanceDetachedCount, LanceDetachedGetVector,
\* LanceDetachedGetAllVectors
LanceCountWrapper(fn, n, err_buf) == Wrapped(fn, n < 0, n, err_buf)

\* a status wrapper that takes only negative values for failures
LanceStatusWrapperNegative(fn, rc, err_buf) == Wrapped(fn, rc < 0, rc, err_buf)

\* LanceDetachedDelete .. LanceDetachedCompact
LanceStatusWrapper(fn, rc, err_buf) == Wrapped(fn, rc # 0, rc, err_buf)

WrapperStep(r, fn, ret, err_buf) ==
    /\ lastOp' = [NoOp EXCEPT !.op = "wrapper", !.status = r.status, !.calls = r.calls,
                              !.result = r.result,
                              !.arg = [fn |-> fn, ret |-> ret, err_buf |-> err_buf]]
    /\ UNCHANGED <<idx, eng, deleted, storageVars, queryVars, buildVars, scan>>

CallHandleWrapper ==
    \E fn \in HandleWrappers, handle \in {NullHandle, "t", "s"}, err_buf \in ErrorTexts :
        WrapperStep(LanceHandleWrapper(fn, handle, err_buf), fn, handle, err_buf)

CallCountWrapper ==
    \E fn \in CountWrappers, n \in (0 - MaxReturn)..MaxReturn, err_buf \in ErrorTexts :
        WrapperStep(LanceCountWrapper(fn, n, err_buf), fn, n, err_buf)

CallStatusWrapper ==
    \E fn \in StatusWrappers, rc \in (0 - MaxReturn)..MaxReturn, err_buf \in ErrorTexts :
        WrapperStep(LanceStatusWrapper(fn, rc, err_buf), fn, rc, err_buf)

NextWrappers ==
    \/ CallHandleWrapper
    \/ CallCountWrapper
    \/ CallStatusWrapper

SpecWrappers == Init /\ [][NextWrappers]_vars

\* the engine's failure sentinel: a null handle, a negative count or label,
\* a non-zero status
FailureSentinel(fn, ret) ==
    CASE fn \in HandleWrappers -> ret = NullHandle
      [] fn \in CountWrappers -> ret < 0
      [] OTHER -> ret # 0

\* C17: a wrapper whose engine call returns the failure sentinel raises an
\* IOException that carries the engine's error text, and every wrapper
\* makes its engine call exactly once, failed or not.
C17_WrapperFailsOnceWithMessage ==
    lastOp.op = "wrapper"
       => /\ Len(lastOp.calls) = 1
          /\ lastOp.calls[1].fn = lastOp.arg.fn
          /\ FailureSentinel(lastOp.arg.fn, lastOp.arg.ret)
                => /\ lastOp.status = "error"
                   /\ lastOp.result.type = "IOException"
                   /\ lastOp.result.message = lastOp.arg.err_buf
          /\ ~FailureSentinel(lastOp.arg.fn, lastOp.arg.ret)
                => /\ lastOp.status = "ok"
                   /\ lastOp.result = lastOp.arg.ret

\* the compact wrapper has raised the engine's text for a positive status
C17_Witness ==
    /\ lastOp.op = "wrapper" /\ lastOp.arg.fn = "compact" /\ lastOp.arg.ret > 0
    /\ lastOp.status = "error" /\ lastOp.result.message = <<101, 114>>
    /\ Len(lastOp.calls) = 1

(***************************************************************************)
(* Properties of the index state machine                                   *)
(***************************************************************************)
LiveLabelsOf(fwd) == {l \in 0..(Len(fwd) - 1) : fwd[l + 1] # NoRow}

\* C1: after any sequence of Append, Delete and MergeIndexes the two mapping
\* tables are mutual inverses on live labels: every forward slot that is not
\* -1 holds a row id whose reverse entry is that label, and every reverse
\* entry names a label whose forward slot holds that row id.
C1_MappingBijection ==
    /\ \A l \in LiveLabelsOf(idx.label_to_rowid_) :
          /\ idx.label_to_rowid_[l + 1] \in DOMAIN idx.rowid_to_label_
          /\ idx.rowid_to_label_[idx.label_to_rowid_[l + 1]] = l
    /\ \A r \in DOMAIN idx.rowid_to_label_ :
          /\ idx.rowid_to_label_[r] \in 0..(Len(idx.label_to_rowid_) - 1)
          /\ idx.label_to_rowid_[idx.rowid_to_label_[r] + 1] = r

\* a merge has just imported rows into an index that holds a live row and
\* an unassigned slot
C1_Witness ==
    /\ lastOp.op = "Merge" /\ lastOp.status = "ok" /\ lastOp.calls # <<>>
    /\ Cardinality(DOMAIN idx.rowid_to_label_) >= 2
    /\ \E l \in 1..Len(idx.label_to_rowid_) : idx.label_to_rowid_[l] = NoRow

\* C2: once Delete has been called for a row id (and the row has not been
\* added again since), no Search returns a pair with that row id, whatever
\* the query vector and k.
C2_DeletedNeverReturned ==
    lastOp.op = "Search" =>
        \A i \in 1..Len(lastOp.result) : lastOp.result[i].row_id \notin deleted

\* a Search returns a row while an earlier Delete reached the engine
C2_Witness ==
    /\ lastOp.op = "Search" /\ lastOp.status = "ok"
    /\ \E i \in 1..Len(lastOp.result) : lastOp.result[i].row_id \in RowIds
    /\ \E r \in deleted : RowVec(r) \in Range(eng.vecs)

AddCallFailed(op) ==
    /\ op.status = "error"
    /\ op.calls # <<>>
    /\ op.calls[Len(op.calls)].fn \in {"add_batch", "add_batch_arrow"}

\* C8: when the engine's batched delete fails during Delete, label_to_rowid_
\* and rowid_to_label_ are the same after the call as before it.
C8_FailedDeleteKeepsMappings ==
    [][(lastOp'.op = "Delete" /\ lastOp'.status = "error")
          => Mappings(idx') = Mappings(idx)]_vars

\* C9: when the engine's batched add fails during Append the two mappings
\* are unchanged; when it succeeds every input row of the batch is mapped,
\* to a label whose forward slot holds it.
C9_AppendAllOrNothing ==
    [][lastOp'.op = "Append" =>
          /\ AddCallFailed(lastOp') => Mappings(idx') = Mappings(idx)
          /\ (lastOp'.status = "ok" /\ lastOp'.calls # <<>>) =>
                \A i \in 1..Len(lastOp'.rows) :
                   /\ lastOp'.rows[i] \in DOMAIN idx'.rowid_to_label_
                   /\ idx'.rowid_to_label_[lastOp'.rows[i]] >= Len(idx.label_to_rowid_)
                   /\ idx'.label_to_rowid_[idx'.rowid_to_label_[lastOp'.rows[i]] + 1]
                        = lastOp'.rows[i]]_vars

\* an Append of a full batch has failed at the add call on an index that
\* already maps a row
C9_Witness ==
    /\ lastOp.op = "Append" /\ AddCallFailed(lastOp) /\ Len(lastOp.rows) = MaxBatch
    /\ DOMAIN idx.rowid_to_label_ # {}

\* C11: Delete of row ids that an earlier Delete removed, none of them
\* appended since, raises no error, makes no engine call and leaves both
\* mappings and has_pending_deletes_ as they were.
C11_SecondDeleteIsNoOp ==
    [][(lastOp'.op = "Delete" /\ Range(lastOp'.rows) \subseteq deleted)
          => /\ lastOp'.status = "ok"
             /\ lastOp'.calls = <<>>
             /\ Mappings(idx') = Mappings(idx)
             /\ idx'.has_pending_deletes_ = idx.has_pending_deletes_]_vars

\* a Delete has run for a row whose vector the engine holds and whose
\* earlier Delete reached the engine
C11_Witness ==
    /\ lastOp.op = "Delete" /\ lastOp.status = "ok" /\ lastOp.calls = <<>>
    /\ idx.rust_handle_ # NullHandle /\ idx.has_pending_deletes_
    /\ \E i \in 1..Len(lastOp.rows) : RowVec(lastOp.rows[i]) \in Range(eng.vecs)

\* the row ids of a Search result
ResultRows(res) == {res[i].row_id : i \in 1..Len(res)}

\* the row ids some Search of the index can return
Searchable(ix, e) ==
    UNION {ResultRows(res) : res \in UNION {IndexSearch(ix, e, query, MaxLabel) :
                                              query \in Queries}}

\* C12: a successful merge of two indexes that both hold an engine handle,
\* over disjoint row ids, leaves the target with its own live row ids plus
\* the source's; each of them has a reverse entry and can be returned by
\* Search; row ids deleted from the source have no reverse entry.
C12_MergeAddsLiveRows ==
    [][(/\ lastOp'.op = "Merge" /\ lastOp'.status = "ok"
        /\ idx.rust_handle_ # NullHandle /\ lastOp'.arg.active
        /\ (lastOp'.arg.live \cup lastOp'.arg.removed) \cap Mapped = {})
          => /\ Cardinality(DOMAIN idx'.rowid_to_label_)
                  = Cardinality(Mapped) + Cardinality(lastOp'.arg.live)
             /\ DOMAIN idx'.rowid_to_label_ = Mapped \cup lastOp'.arg.live
             /\ DOMAIN idx'.rowid_to_label_ \subseteq Searchable(idx', eng')
             /\ lastOp'.arg.removed \cap DOMAIN idx'.rowid_to_label_ = {}]_vars

\* a merge has brought a live row into a target that already had one, from a
\* source that had lost another row
C12_Witness ==
    /\ lastOp.op = "Merge" /\ lastOp.status = "ok" /\ lastOp.arg.active
    /\ lastOp.arg.live # {} /\ lastOp.arg.removed # {}
    /\ Mapped \ lastOp.arg.live # {}
    /\ lastOp.arg.removed \cap Mapped = {}
    /\ Mapped \subseteq Searchable(idx, eng)

\* C13: after an Append of N rows into an index that held no rows before,
\* Search with k = N returns at most N pairs and only appended row ids.
C13_SearchAfterFirstAppend ==
    [][(/\ lastOp.op = "Append" /\ lastOp.status = "ok" /\ lastOp.rows # <<>>
        /\ Cardinality(DOMAIN eng.vecs) = Len(lastOp.rows)
        /\ lastOp'.op = "Search" /\ lastOp'.status = "ok"
        /\ lastOp'.arg.k = Len(lastOp.rows))
          => /\ Len(lastOp'.result) <= Len(lastOp.rows)
             /\ ResultRows(lastOp'.result) \subseteq Range(lastOp.rows)]_vars

\* a Search with k = MaxBatch has returned every row of a first Append of
\* MaxBatch rows whose labels follow a gap
C13_Witness ==
    /\ lastOp.op = "Search" /\ lastOp.status = "ok" /\ lastOp.arg.k = MaxBatch
    /\ Len(lastOp.result) = MaxBatch
    /\ Cardinality(DOMAIN eng.vecs) = MaxBatch /\ deleted = {}
    /\ ResultRows(lastOp.result) = Mapped
    /\ Len(idx.label_to_rowid_) > MaxBatch

(***************************************************************************)
(* Properties of the handle's life                                         *)
(***************************************************************************)
\* C14: Search on an index without an engine handle (before the first
\* Append, after CommitDrop), or with a query whose dimension is not the
\* configured one, returns an empty result, raises no error and makes no
\* engine call.
C14_SearchWithoutHandle ==
    [][(/\ lastOp'.op = "Search"
        /\ (idx.rust_handle_ = NullHandle \/ Len(lastOp'.arg.query) # idx.dimension_))
          => /\ lastOp'.status = "ok"
             /\ lastOp'.result = <<>>
             /\ lastOp'.calls = <<>>]_vars

\* a Search with a query of the right dimension has run on an index that
\* mapped rows when CommitDrop took its handle
C14_Witness ==
    /\ lastOp.op = "Search" /\ lastOp.status = "ok" /\ lastOp.result = <<>>
    /\ life.dropped /\ idx.rust_handle_ = NullHandle /\ Mapped # {}
    /\ Len(lastOp.arg.query) = idx.dimension_

\* C15: once CommitDrop has run the index holds no engine handle, the engine
\* has none allocated for it and the backing dataset does not exist, whatever
\* is called on the index afterwards.
C15_DroppedIsTerminal ==
    life.dropped => /\ idx.rust_handle_ = NullHandle
                    /\ ~life.open
                    /\ ~eng.created

\* C16: no handle is freed twice; at most one of the sink state and the
\* index object holds a non-null pointer to the handle, and the engine has
\* the handle allocated exactly while one of them does; after the handoff in
\* Finalize the sink state's pointer is null.
C16_HandleClosedOnce ==
    /\ ~life.closed_twice
    /\ Cardinality(Owners) <= 1
    /\ life.open <=> Owners # {}
    /\ (lastOp.op = "Finalize" /\ lastOp.arg # "not_main_table")
          => sink.rust_handle = NullHandle

\* a bulk-built index has been dropped and destroyed, and the sink state too
C16_Witness ==
    /\ life.sink = "destroyed" /\ life.index = "destroyed" /\ life.dropped
    /\ lastOp.op \in {"~LanceIndex", "~CreateLanceGlobalSinkState"}
    /\ idx.label_to_rowid_ # <<>>

\* C18: CreateAnnIndex and CreateHnswIndex on an index without an engine
\* handle fail, make no engine call and leave the index and its dataset alone.
C18_CreateIndexWithoutHandle ==
    [][(lastOp'.op \in {"CreateAnnIndex", "CreateHnswIndex"} /\ idx.rust_handle_ = NullHandle)
          => /\ lastOp'.status = "error"
             /\ lastOp'.calls = <<>>
             /\ idx' = idx
             /\ eng' = eng]_vars

\* CreateHnswIndex has failed on an index object that never appended a row
C18_Witness ==
    /\ lastOp.op = "CreateHnswIndex" /\ lastOp.status = "error" /\ lastOp.calls = <<>>
    /\ life.index = "alive" /\ ~life.dropped /\ idx.rust_handle_ = NullHandle

(***************************************************************************)
(* Properties of persistence                                               *)
(***************************************************************************)
SerializeOps == {"SerializeToDisk", "SerializeToWAL"}

\* the fields a load must bring back
SameConfiguration(a, b) ==
    /\ a.dimension_ = b.dimension_
    /\ a.metric_ = b.metric_
    /\ a.nprobes_ = b.nprobes_
    /\ a.refine_factor_ = b.refine_factor_
    /\ a.table_name_ = b.table_name_
    /\ a.lance_path_ = b.lance_path_

ReverseIsInverse(ix) ==
    /\ DOMAIN ix.rowid_to_label_
          = {ix.label_to_rowid_[l + 1] : l \in LiveLabelsOf(ix.label_to_rowid_)}
    /\ \A l \in LiveLabelsOf(ix.label_to_rowid_) :
          ix.rowid_to_label_[ix.label_to_rowid_[l + 1]] = l

\* C3: for an Active index reached by Append and Delete calls, a Serialize
\* call followed by LoadFromStorage yields an index with the same forward
\* mapping, a reverse mapping that is its inverse on the slots that are not
\* -1, the same dimension, metric, probe count, refine factor, table name
\* and backing path, and the same Search results for every query and k.
C3_PersistLoadRoundTrip ==
    [][(/\ lastOp.op \in SerializeOps
        /\ idx.rust_handle_ # NullHandle
        /\ lastOp'.op = "Load" /\ lastOp'.status = "ok")
          => /\ idx'.label_to_rowid_ = idx.label_to_rowid_
             /\ ReverseIsInverse(idx')
             /\ SameConfiguration(idx', idx)
             /\ \A query \in Queries, k \in 0..MaxK :
                   IndexSearch(idx', eng', query, k) = IndexSearch(idx, eng, query, k)]_vars

\* C10: a load from a chain whose links end before a declared length is
\* satisfied fails with an error; it never completes.
C10_TruncatedChainFailsLoad ==
    [][(lastOp'.op = "Load" /\ lastOp'.short_read) => lastOp'.status = "error"]_vars


(***************************************************************************)
(* Filter expressions and ExpressionToLancePredicate                       *)
(* A predicate string is a sequence of tokens: column names, operators,    *)
(* literals and the keywords AND, OR, NOT and the parentheses              *)
(***************************************************************************)
\* a column reference, named by the column its binding points at: a column
\* of the table, the row id column "rowid", or a name the scan does not have
\* for a binding beyond the scan's column ids
ColumnRef(name) == [class |-> "BOUND_COLUMN_REF", name |-> name, value |-> 0,
                    logical_type |-> ""]
\* a constant: a Value with its logical type, not NULL
Constant(logical_type, value) ==
    [class |-> "BOUND_CONSTANT", name |-> "", value |-> value, logical_type |-> logical_type]
\* a NULL constant of the type
NullConstant(logical_type) ==
    [class |-> "BOUND_CONSTANT", name |-> "NULL", value |-> 0, logical_type |-> logical_type]
\* a scalar function applied to a column, abs(name)
FunctionOf(name) == [class |-> "BOUND_FUNCTION", name |-> name, value |-> 0,
                     logical_type |-> ""]

Comparison(type, left, right) ==
    [class |-> "BOUND_COMPARISON", type |-> type, left |-> left, right |-> right]
Conjunction(type, children) ==
    [class |-> "BOUND_CONJUNCTION", type |-> type, children |-> children]

\* NOT, IS NULL, IS NOT NULL, IN and NOT IN over their children
Operator(type, children) == [class |-> "BOUND_OPERATOR", type |-> type, children |-> children]
Between(input, lower, upper, lower_inclusive, upper_inclusive) ==
    [class |-> "BOUND_BETWEEN", input |-> input, lower |-> lower, upper |-> upper,
     lower_inclusive |-> lower_inclusive, upper_inclusive |-> upper_inclusive]

Tok(t, name, value) == [t |-> t, name |-> name, value |-> value]
Keyword(t) == Tok(t, "", 0)

\* ComparisonOperator: the SQL operator of a comparison type, "" for none
ComparisonOperator(type) ==
    CASE type = "COMPARE_EQUAL" -> "="
      [] type = "COMPARE_NOTEQUAL" -> "!="
      [] type = "COMPARE_LESSTHAN" -> "<"
      [] type = "COMPARE_GREATERTHAN" -> ">"
      [] type = "COMPARE_LESSTHANOREQUALTO" -> "<="
      [] type = "COMPARE_GREATERTHANOREQUALTO" -> ">="
      [] OTHER -> ""

\* the columns of the table entry, by name
PhysicalColumns == {"vec", "p", "s"}

\* the column ids of a scan of the table: its columns and the row id column
TableColumnIds == <<"vec", "p", "s", "rowid">>

\* ResolveColumnName: fails for a binding beyond the scan's column ids, for a
\* scan without a table entry, and for a column id beyond the table's
\* physical columns (the row id column)
ResolveColumnName(col_ref, get) ==
    IF col_ref.name \notin Range(get.column_ids) THEN [ok |-> FALSE, sql |-> <<>>]
    ELSE IF ~get.is_duck_table THEN [ok |-> FALSE, sql |-> <<>>]
    ELSE IF col_ref.name \notin PhysicalColumns THEN [ok |-> FALSE, sql |-> <<>>]
    ELSE [ok |-> TRUE, sql |-> <<Tok("column", col_ref.name, 0)>>]

\* the logical types FormatConstant has a case for
FormattedTypes == {"VARCHAR", "INTEGER", "BIGINT", "FLOAT", "DOUBLE", "BOOLEAN"}

\* FormatConstant: NULL for a NULL of any type, the literal for a value of
\* the six types, false for every other type
FormatConstant(val) ==
    IF val.name = "NULL" THEN [ok |-> TRUE, sql |-> <<Keyword("NULL")>>]
    ELSE IF val.logical_type \in FormattedTypes
    THEN [ok |-> TRUE, sql |-> <<Tok("literal", "", val.value)>>]
    ELSE [ok |-> FALSE, sql |-> <<>>]

\* one side of a comparison: ResolveColumnName or FormatConstant
OperandToLance(operand, get) ==
    CASE operand.class = "BOUND_COLUMN_REF" -> ResolveColumnName(operand, get)
      [] operand.class = "BOUND_CONSTANT" -> FormatConstant(operand)
      [] OTHER -> [ok |-> FALSE, sql |-> <<>>]

\* the value list of IN: the constants from child i on
RECURSIVE InValues(_, _)
InValues(children, i) ==
    IF i > Len(children) THEN [ok |-> TRUE, sql |-> <<>>]
    ELSE LET rest == InValues(children, i + 1)
         IN  IF \/ children[i].class # "BOUND_CONSTANT"
                \/ ~FormatConstant(children[i]).ok
                \/ ~rest.ok
             THEN [ok |-> FALSE, sql |-> <<>>]
             ELSE [ok |-> TRUE, sql |-> FormatConstant(children[i]).sql \o rest.sql]

RECURSIVE ExpressionToLancePredicate(_, _)
\* the loop over the children of a conjunction, from child i on
RECURSIVE ConjunctionToLance(_, _, _, _)
ConjunctionToLance(expr, get, i, result) ==
    IF i > Len(expr.children) THEN [ok |-> TRUE, sql |-> result]
    ELSE LET child == ExpressionToLancePredicate(expr.children[i], get)
             join_op == IF expr.type = "CONJUNCTION_AND" THEN "AND" ELSE "OR"
             joined == IF i > 1 THEN result \o <<Keyword(join_op)>> ELSE result
         IN  IF ~child.ok THEN [ok |-> FALSE, sql |-> <<>>]
             ELSE ConjunctionToLance(expr, get, i + 1,
                      IF expr.type = "CONJUNCTION_OR"
                      THEN joined \o <<Keyword("(")>> \o child.sql \o <<Keyword(")")>>
                      ELSE joined \o child.sql)

ExpressionToLancePredicate(expr, get) ==
    CASE expr.class = "BOUND_COMPARISON" ->
            LET op_str == ComparisonOperator(expr.type)
                left == OperandToLance(expr.left, get)
                right == OperandToLance(expr.right, get)
            IN  IF op_str = "" \/ ~left.ok \/ ~right.ok THEN [ok |-> FALSE, sql |-> <<>>]
                ELSE [ok |-> TRUE,
                      sql |-> left.sql \o <<Tok("operator", op_str, 0)>> \o right.sql]
      [] expr.class = "BOUND_CONJUNCTION" -> ConjunctionToLance(expr, get, 1, <<>>)
      [] expr.class = "BOUND_OPERATOR" ->
            CASE expr.type \in {"OPERATOR_IS_NULL", "OPERATOR_IS_NOT_NULL"} ->
                    IF Len(expr.children) # 1 \/ expr.children[1].class # "BOUND_COLUMN_REF"
                    THEN [ok |-> FALSE, sql |-> <<>>]
                    ELSE IF ~ResolveColumnName(expr.children[1], get).ok
                    THEN [ok |-> FALSE, sql |-> <<>>]
                    ELSE [ok |-> TRUE,
                          sql |-> ResolveColumnName(expr.children[1], get).sql
                                  \o <<Keyword(IF expr.type = "OPERATOR_IS_NULL"
                                               THEN "IS NULL" ELSE "IS NOT NULL")>>]
              [] expr.type = "OPERATOR_NOT" ->
                    IF Len(expr.children) # 1 THEN [ok |-> FALSE, sql |-> <<>>]
                    ELSE LET child == ExpressionToLancePredicate(expr.children[1], get)
                         IN  IF ~child.ok THEN [ok |-> FALSE, sql |-> <<>>]
                             ELSE [ok |-> TRUE,
                                   sql |-> <<Keyword("NOT"), Keyword("(")>> \o child.sql
                                           \o <<Keyword(")")>>]
              [] expr.type \in {"COMPARE_IN", "COMPARE_NOT_IN"} ->
                    IF Len(expr.children) < 2 \/ expr.children[1].class # "BOUND_COLUMN_REF"
                    THEN [ok |-> FALSE, sql |-> <<>>]
                    ELSE IF ~ResolveColumnName(expr.children[1], get).ok
                    THEN [ok |-> FALSE, sql |-> <<>>]
                    ELSE LET values == InValues(expr.children, 2)
                         IN  IF ~values.ok THEN [ok |-> FALSE, sql |-> <<>>]
                             ELSE [ok |-> TRUE,
                                   sql |-> ResolveColumnName(expr.children[1], get).sql
                                           \o <<Keyword(IF expr.type = "COMPARE_IN"
                                                        THEN "IN" ELSE "NOT IN"),
                                                Keyword("(")>>
                                           \o values.sql \o <<Keyword(")")>>]
              [] OTHER -> [ok |-> FALSE, sql |-> <<>>]
      [] expr.class = "BOUND_BETWEEN" ->
            IF expr.input.class # "BOUND_COLUMN_REF" THEN [ok |-> FALSE, sql |-> <<>>]
            ELSE IF ~ResolveColumnName(expr.input, get).ok THEN [ok |-> FALSE, sql |-> <<>>]
            ELSE IF \/ expr.lower.class # "BOUND_CONSTANT"
                    \/ expr.upper.class # "BOUND_CONSTANT"
            THEN [ok |-> FALSE, sql |-> <<>>]
            ELSE IF ~FormatConstant(expr.lower).ok \/ ~FormatConstant(expr.upper).ok
            THEN [ok |-> FALSE, sql |-> <<>>]
            ELSE [ok |-> TRUE,
                  sql |-> ResolveColumnName(expr.input, get).sql
                          \o <<Tok("operator", IF expr.lower_inclusive THEN ">=" ELSE ">", 0)>>
                          \o FormatConstant(expr.lower).sql
                          \o <<Keyword("AND")>>
                          \o ResolveColumnName(expr.input, get).sql
                          \o <<Tok("operator", IF expr.upper_inclusive THEN "<=" ELSE "<", 0)>>
                          \o FormatConstant(expr.upper).sql]
      [] OTHER -> [ok |-> FALSE, sql |-> <<>>]

(***************************************************************************)
(* What the filters mean: the host's evaluation of an expression on a row, *)
(* and the engine's evaluation of a predicate string (NOT binds tighter    *)
(* than AND, AND tighter than OR)                                          *)
(***************************************************************************)
Compare(op_str, x, y) ==
    CASE op_str = "=" -> x = y
      [] op_str = "!=" -> x # y
      [] op_str = "<" -> x < y
      [] op_str = ">" -> x > y
      [] op_str = "<=" -> x <= y
      [] op_str = ">=" -> x >= y
      [] OTHER -> FALSE

\* abs(x) on the values of the model
OperandValue(operand, row) ==
    CASE operand.class = "BOUND_COLUMN_REF" -> row[operand.name]
      [] operand.class = "BOUND_FUNCTION" ->
            IF row[operand.name] < 0 THEN 0 - row[operand.name] ELSE row[operand.name]
      [] OTHER -> operand.value

RECURSIVE ExpressionHolds(_, _)
ExpressionHolds(expr, row) ==
    CASE expr.class = "BOUND_COMPARISON" ->
            Compare(ComparisonOperator(expr.type),
                    OperandValue(expr.left, row), OperandValue(expr.right, row))
      [] expr.class = "BOUND_CONJUNCTION" ->
            IF expr.type = "CONJUNCTION_AND"
            THEN \A i \in 1..Len(expr.children) : ExpressionHolds(expr.children[i], row)
            ELSE \E i \in 1..Len(expr.children) : ExpressionHolds(expr.children[i], row)
      [] expr.class = "BOUND_OPERATOR" ->
            \* no value of the model is NULL
            CASE expr.type = "OPERATOR_IS_NULL" -> FALSE
              [] expr.type = "OPERATOR_IS_NOT_NULL" -> TRUE
              [] expr.type = "OPERATOR_NOT" -> ~ExpressionHolds(expr.children[1], row)
              [] expr.type = "COMPARE_IN" ->
                    \E i \in 2..Len(expr.children) :
                        OperandValue(expr.children[1], row) = OperandValue(expr.children[i], row)
              [] expr.type = "COMPARE_NOT_IN" ->
                    \A i \in 2..Len(expr.children) :
                        OperandValue(expr.children[1], row) # OperandValue(expr.children[i], row)
              [] OTHER -> FALSE
      [] expr.class = "BOUND_BETWEEN" ->
            LET x == OperandValue(expr.input, row)
            IN  /\ Compare(IF expr.lower_inclusive THEN ">=" ELSE ">", x, expr.lower.value)
                /\ Compare(IF expr.upper_inclusive THEN "<=" ELSE "<", x, expr.upper.value)
      [] OTHER -> FALSE

\* the nesting depth of token i of a predicate
Depth(sql, i) ==
    Cardinality({j \in 1..(i - 1) : sql[j].t = "("})
    - Cardinality({j \in 1..(i - 1) : sql[j].t = ")"})

TopLevel(sql, t) == {i \in 1..Len(sql) : sql[i].t = t /\ Depth(sql, i) = 0}

TokenValue(tok, row) == IF tok.t = "column" THEN row[tok.name] ELSE tok.value

RECURSIVE PredicateHolds(_, _)
PredicateHolds(sql, row) ==
    LET ors == TopLevel(sql, "OR")
        ands == TopLevel(sql, "AND")
        cut(S) == CHOOSE i \in S : \A j \in S : i <= j
    IN  IF sql = <<>> THEN TRUE
        ELSE IF ors # {}
        THEN \/ PredicateHolds(SubSeq(sql, 1, cut(ors) - 1), row)
             \/ PredicateHolds(SubSeq(sql, cut(ors) + 1, Len(sql)), row)
        ELSE IF ands # {}
        THEN /\ PredicateHolds(SubSeq(sql, 1, cut(ands) - 1), row)
             /\ PredicateHolds(SubSeq(sql, cut(ands) + 1, Len(sql)), row)
        ELSE IF sql[1].t = "NOT" THEN ~PredicateHolds(Tail(sql), row)
        ELSE IF sql[1].t = "(" THEN PredicateHolds(SubSeq(sql, 2, Len(sql) - 1), row)
        ELSE IF sql[2].t = "IS NULL" THEN FALSE
        ELSE IF sql[2].t = "IS NOT NULL" THEN TRUE
        ELSE IF sql[2].t \in {"IN", "NOT IN"}
        THEN (sql[2].t = "IN") <=>
             (\E j \in 4..(Len(sql) - 1) : TokenValue(sql[1], row) = sql[j].value)
        ELSE Compare(sql[2].name, TokenValue(sql[1], row), TokenValue(sql[3], row))


(***************************************************************************)
(* Logical plans: a plan is the sequence of its operators from the root    *)
(* down, each the only child of the one before                             *)
(***************************************************************************)
LimitNode(limit_val, offset_val) ==
    [type |-> "LOGICAL_LIMIT", limit_val |-> limit_val, offset_val |-> offset_val]
OrderNode(orders) == [type |-> "LOGICAL_ORDER_BY", orders |-> orders]
FilterNode(expressions) == [type |-> "LOGICAL_FILTER", expressions |-> expressions]
ProjectionNode == [type |-> "LOGICAL_PROJECTION"]
\* a scan of the table; the replacement scan carries the bind data; a newly
\* made LogicalGet has no table filters
GetNode(function, is_duck_table, bind_data, column_ids) ==
    [type |-> "LOGICAL_GET", function |-> function, is_duck_table |-> is_duck_table,
     bind_data |-> bind_data, table_filters |-> <<>>, column_ids |-> column_ids]

LimitValue(type, value) == [type |-> type, value |-> value]
OrderBy(type, expression) == [type |-> type, expression |-> expression]
\* a function call; a constant has its logical type and its elements
FunctionCall(name, children) ==
    [type |-> "BOUND_FUNCTION", class |-> "BOUND_FUNCTION", name |-> name,
     children |-> children]
VectorColumn == [type |-> "BOUND_COLUMN_REF", class |-> "BOUND_COLUMN_REF", name |-> "vec"]
ValueConstant(logical_type, children) ==
    [type |-> "VALUE_CONSTANT", class |-> "BOUND_CONSTANT",
     logical_type |-> logical_type, children |-> children]

\* an index of the table as the optimizer sees it
IndexEntry(name, type, column, metric) ==
    [name |-> name, type |-> type, column |-> column, metric |-> metric]

IsArrayDistanceFunction(expr) ==
    /\ expr.type = "BOUND_FUNCTION"
    /\ expr.name \in {"array_distance", "array_cosine_distance", "array_inner_product"}

DistanceFunctionToMetric(func_name) ==
    CASE func_name = "array_distance" -> StrL2
      [] func_name = "array_cosine_distance" -> StrCosine
      [] func_name = "array_inner_product" -> StrDot
      [] OTHER -> <<>>

\* LogicalFilter::SplitPredicates: an AND at the top of an expression is
\* replaced by its first child, the other children go to the end
RECURSIVE SplitPredicates(_, _)
SplitPredicates(expressions, i) ==
    IF i > Len(expressions) THEN expressions
    ELSE LET expr == expressions[i]
         IN  IF expr.class = "BOUND_CONJUNCTION" /\ expr.type = "CONJUNCTION_AND"
             THEN SplitPredicates([expressions EXCEPT ![i] = expr.children[1]]
                                  \o Tail(expr.children), i)
             ELSE SplitPredicates(expressions, i + 1)

\* the loop over the split conjuncts: the pushed predicate and the rest
RECURSIVE PushPredicates(_, _, _, _, _)
PushPredicates(expressions, get, i, predicate, remaining) ==
    IF i > Len(expressions) THEN [predicate |-> predicate, remaining |-> remaining]
    ELSE LET pred == ExpressionToLancePredicate(expressions[i], get)
         IN  IF pred.ok
             THEN PushPredicates(expressions, get, i + 1,
                                 (IF predicate # <<>> THEN predicate \o <<Keyword("AND")>>
                                  ELSE predicate) \o pred.sql,
                                 remaining)
             ELSE PushPredicates(expressions, get, i + 1, predicate,
                                 Append(remaining, expressions[i]))

\* an index scan that takes a LANCE index of the column whatever its metric
FoundIndexAnyMetric(indexes, target_column, expected_metric) ==
    SelectSeq(indexes, LAMBDA ix : ix.type = "LANCE" /\ ix.column = target_column)

\* the first index the scan of the table's indexes accepts, <<>> for none
FoundIndex(indexes, target_column, expected_metric) ==
    SelectSeq(indexes, LAMBDA ix :
        /\ ix.type = "LANCE"
        /\ ix.column = target_column
        /\ \/ ix.metric = expected_metric
           \/ (ix.metric = StrIp /\ expected_metric = StrDot)
           \/ (ix.metric = StrDot /\ expected_metric = StrIp))

\* the plan of a query whose optimization threw InternalException
InternalException == <<[type |-> "InternalException"]>>

\* the pattern match of TryRewrite at operator i of the plan; the scan the
\* match builds has no get_bind_info, so that its GetTable() is null
RewriteAt(plan, i, indexes) ==
    LET op == plan[i]
        order_op == plan[i + 1]
        order_expr == order_op.orders[1].expression
        qval == order_expr.children[2]
        has_filter == Len(plan) >= i + 2 /\ plan[i + 2].type = "LOGICAL_FILTER"
        w == IF has_filter THEN i + 3 ELSE i + 2
        has_projection == Len(plan) >= w /\ plan[w].type = "LOGICAL_PROJECTION"
        g == IF Len(plan) >= w /\ plan[w].type = "LOGICAL_GET" THEN w
             ELSE IF has_projection /\ Len(plan) >= w + 1 /\ plan[w + 1].type = "LOGICAL_GET"
             THEN w + 1 ELSE 0
        first_child == order_expr.children[1]
        target_column == IF /\ first_child.class = "BOUND_COLUMN_REF"
                            /\ first_child.name \in Range(plan[g].column_ids)
                         THEN first_child.name ELSE ""
        found == FoundIndex(indexes, target_column, DistanceFunctionToMetric(order_expr.name))
        filter == plan[i + 2]
        pushing == has_filter /\ filter.expressions # <<>>
        pushed == PushPredicates(SplitPredicates(filter.expressions, 1), plan[g], 1,
                                 <<>>, <<>>)
        filter_fully_pushed == pushing /\ pushed.remaining = <<>>
        new_get == GetNode("lance_index_scan", FALSE,
                           [index_name |-> found[1].name,
                            limit |-> op.limit_val.value,
                            query_vector |-> qval.children,
                            predicate |-> IF pushing THEN pushed.predicate ELSE <<>>],
                           plan[g].column_ids)
        above == SubSeq(plan, 1, i - 1)
        projection == IF has_projection THEN <<plan[w]>> ELSE <<>>
    IN  IF plan = InternalException THEN plan
        ELSE IF op.type # "LOGICAL_LIMIT" THEN plan
        ELSE IF op.limit_val.type # "CONSTANT_VALUE" THEN plan
        ELSE IF op.offset_val.type = "CONSTANT_VALUE" /\ op.offset_val.value > 0 THEN plan
        ELSE IF Len(plan) < i + 1 \/ order_op.type # "LOGICAL_ORDER_BY" THEN plan
        ELSE IF Len(order_op.orders) # 1 THEN plan
        ELSE IF order_op.orders[1].type = "DESCENDING" THEN plan
        ELSE IF ~IsArrayDistanceFunction(order_expr) THEN plan
        ELSE IF Len(order_expr.children) # 2 THEN plan
        ELSE IF qval.type # "VALUE_CONSTANT" THEN plan
        ELSE IF qval.logical_type \notin {"ARRAY", "LIST"} THEN plan
        ELSE IF qval.children = <<>> THEN plan
        ELSE IF Len(plan) < i + 2 THEN InternalException
        ELSE IF g = 0 THEN plan
        ELSE IF ~plan[g].is_duck_table THEN plan
        ELSE IF found = <<>> THEN plan
        ELSE IF has_filter /\ ~filter_fully_pushed
        THEN above \o <<FilterNode(IF pushing THEN pushed.remaining ELSE filter.expressions)>>
                   \o projection \o <<new_get>>
        ELSE above \o projection \o <<new_get>>

\* TryRewrite on operator i: its child first, then the operator itself
RECURSIVE TryRewrite(_, _, _)
TryRewrite(plan, i, indexes) ==
    RewriteAt(IF i < Len(plan) THEN TryRewrite(plan, i + 1, indexes) ELSE plan, i, indexes)


(***************************************************************************)
(* Execution of a plan on a table: the host's own operators, and the       *)
(* replacement scan (LanceIndexScanInit, LanceIndexScanScan)               *)
(***************************************************************************)
\* a row of the table as the expressions see it
TableRow(tbl, r) == [vec |-> RowVec(r), p |-> tbl[r].p, s |-> tbl[r].s, rowid |-> r]

\* row a sorts no later than row b under ORDER BY func_name(vec, q) ASC
HostLeq(func_name, a, b, q) ==
    CASE func_name = "array_distance" ->
            EngineDistance(StrL2, a, q) <= EngineDistance(StrL2, b, q)
      [] func_name = "array_cosine_distance" ->
            CosSimGeq(EngineDistance(StrCosine, a, q), EngineDistance(StrCosine, b, q))
      [] OTHER -> Dot(a, q) <= Dot(b, q)

\* Limit k over Order: the sequences of row ids the host may return
RECURSIVE HostTopK(_, _, _, _)
HostTopK(func_name, q, rows, k) ==
    IF k <= 0 \/ rows = {} THEN {<<>>}
    ELSE LET first == {r \in rows : \A x \in rows : HostLeq(func_name, RowVec(r), RowVec(x), q)}
         IN  UNION {{<<r>> \o rest : rest \in HostTopK(func_name, q, rows \ {r}, k - 1)} :
                    r \in first}

FilterOf(plan) ==
    IF \E i \in 1..Len(plan) : plan[i].type = "LOGICAL_FILTER"
    THEN plan[CHOOSE i \in 1..Len(plan) : plan[i].type = "LOGICAL_FILTER"].expressions
    ELSE <<>>

Passing(tbl, expressions) ==
    {r \in RowIds : \A i \in 1..Len(expressions) :
        ExpressionHolds(expressions[i], TableRow(tbl, r))}

\* the position of the LIMIT of a plan, 0 when there is none
LimitAt(plan) ==
    IF \E i \in 1..Len(plan) : plan[i].type = "LOGICAL_LIMIT"
    THEN CHOOSE i \in 1..Len(plan) : plan[i].type = "LOGICAL_LIMIT"
    ELSE 0
LimitOf(plan) == plan[LimitAt(plan)]
OrderOf(plan) == plan[LimitAt(plan) + 1]

NodeTypes(plan) == [i \in 1..Len(plan) |-> plan[i].type]

\* a plan Limit k -> Order by distance(vec, constant) ASC -> [Filter] ->
\* [Projection] -> Get with no offset, under projections only, which the host
\* evaluates by exact distance over all rows that pass the filter
IsTopKPlan(plan) ==
    /\ LimitAt(plan) > 0
    /\ \A i \in 1..(LimitAt(plan) - 1) : plan[i].type = "LOGICAL_PROJECTION"
    /\ LimitOf(plan).limit_val.type = "CONSTANT_VALUE"
    /\ LimitOf(plan).offset_val.type = "UNSET"
    /\ Len(plan) > LimitAt(plan) + 1
    /\ OrderOf(plan).type = "LOGICAL_ORDER_BY"
    /\ SubSeq(NodeTypes(plan), LimitAt(plan) + 2, Len(plan)) \in
          {<<"LOGICAL_GET">>, <<"LOGICAL_FILTER", "LOGICAL_GET">>,
           <<"LOGICAL_PROJECTION", "LOGICAL_GET">>,
           <<"LOGICAL_FILTER", "LOGICAL_PROJECTION", "LOGICAL_GET">>}
    /\ plan[Len(plan)].function = "seq_scan"
    /\ Len(OrderOf(plan).orders) = 1
    /\ OrderOf(plan).orders[1].type = "ASCENDING"
    /\ IsArrayDistanceFunction(OrderOf(plan).orders[1].expression)
    /\ Len(OrderOf(plan).orders[1].expression.children) = 2
    /\ OrderOf(plan).orders[1].expression.children[1] = VectorColumn
    /\ OrderOf(plan).orders[1].expression.children[2].type = "VALUE_CONSTANT"
    /\ Len(OrderOf(plan).orders[1].expression.children[2].children) = Dimension

\* the host's plan over the rows of the table that the transaction sees
HostResults(plan, tbl, visible) ==
    LET expr == OrderOf(plan).orders[1].expression
    IN  HostTopK(expr.name, expr.children[2].children,
                 visible \cap Passing(tbl, FilterOf(plan))
                         \cap Passing(tbl, plan[Len(plan)].table_filters),
                 LimitOf(plan).limit_val.value)

ScanOf(plan) == plan[Len(plan)]

IsIndexScan(plan) ==
    plan # <<>> /\ ScanOf(plan).type = "LOGICAL_GET"
                /\ ScanOf(plan).function = "lance_index_scan"

\* Search with a predicate: the engine searches among the live vectors
\* whose row satisfies the predicate
IndexSearchPredicate(ix, e, query, k, predicate, tbl) ==
    IF ~SearchCallsEngine(ix, query) THEN {<<>>}
    ELSE IF k < 0 THEN {}
    ELSE LET matching == {l \in EngineLive(e) :
                             /\ l < Len(ix.label_to_rowid_)
                             /\ ix.label_to_rowid_[l + 1] \in RowIds
                             /\ PredicateHolds(predicate,
                                               TableRow(tbl, ix.label_to_rowid_[l + 1]))}
         IN  {SearchTranslate(ix, found, 1) :
                 found \in EngineTopK(e, ix.metric_, query, matching, k)}

\* LanceIndexScanInit: the results the scan state may hold
LanceIndexScanInit(bind_data, ix, e, tbl) ==
    IF bind_data.index_name # ix.name THEN {<<>>}
    ELSE IndexSearchPredicate(ix, e, bind_data.query_vector, bind_data.limit,
                              bind_data.predicate, tbl)

(***************************************************************************)
(* The queries of the model                                                *)
(***************************************************************************)
NoBindData == [index_name |-> <<>>, limit |-> 0, query_vector |-> <<>>, predicate |-> <<>>]
TableScan(is_duck_table) == GetNode("seq_scan", is_duck_table, NoBindData, TableColumnIds)

Tables == [RowIds -> {[p |-> 0, s |-> 1], [p |-> 1, s |-> 0], [p |-> 1, s |-> 1]}]
QueryVectors == {<<2, 1>>, <<1, 1>>}
DistanceFunctions == {"array_distance", "array_cosine_distance", "array_inner_product"}
Metrics == {StrL2, StrCosine, StrDot, StrIp}

\* conjuncts of a WHERE clause: p >= 1, s = 1, abs(s) >= 1, p = 0 OR s = 1
PAtLeast1 == Comparison("COMPARE_GREATERTHANOREQUALTO", ColumnRef("p"), Constant("INTEGER", 1))
SIs1 == Comparison("COMPARE_EQUAL", ColumnRef("s"), Constant("INTEGER", 1))
AbsSAtLeast1 ==
    Comparison("COMPARE_GREATERTHANOREQUALTO", FunctionOf("s"), Constant("INTEGER", 1))
\* rowid = 1, and s = DATE 1 (a constant of a type without a literal form)
RowIdIs1 == Comparison("COMPARE_EQUAL", ColumnRef("rowid"), Constant("BIGINT", 1))
SIsDate1 == Comparison("COMPARE_EQUAL", ColumnRef("s"), Constant("DATE", 1))
PIs0OrSIs1 ==
    Conjunction("CONJUNCTION_OR",
                <<Comparison("COMPARE_EQUAL", ColumnRef("p"), Constant("INTEGER", 0)), SIs1>>)

FilterLists ==
    {<<>>, <<PAtLeast1>>, <<AbsSAtLeast1>>, <<PAtLeast1, AbsSAtLeast1>>,
     <<PIs0OrSIs1, PAtLeast1>>, <<RowIdIs1>>, <<PAtLeast1, SIsDate1>>,
     <<Conjunction("CONJUNCTION_AND", <<PAtLeast1, AbsSAtLeast1>>)>>,
     <<Operator("OPERATOR_NOT", <<PAtLeast1>>)>>,
     <<Between(ColumnRef("s"), Constant("INTEGER", 1), Constant("INTEGER", 2), TRUE, FALSE)>>,
     <<Operator("COMPARE_IN",
                <<ColumnRef("p"), Constant("INTEGER", 1), Constant("INTEGER", 2)>>)>>}

\* no filter node, or one with each of the lists
Filters == {<<>>} \cup {<<FilterNode(f)>> : f \in FilterLists}

DistanceOrder(type, func_name, q) ==
    OrderBy(type, FunctionCall(func_name, <<VectorColumn, ValueConstant("ARRAY", q)>>))

LanceOnVec(metric) == IndexEntry(IndexName["t"], "LANCE", "vec", metric)

\* queries of the shape the rewrite looks for, over every table
TopKQueries ==
    {[table |-> t,
      catalog |-> <<LanceOnVec(m)>>,
      plan |-> <<LimitNode(LimitValue("CONSTANT_VALUE", k), LimitValue("UNSET", 0)),
                 OrderNode(<<DistanceOrder("ASCENDING", fn, q)>>)>>
               \o f \o <<TableScan(TRUE)>>] :
        t \in Tables, m \in Metrics, k \in 1..MaxK, fn \in DistanceFunctions,
        q \in QueryVectors, f \in Filters}

\* a scan of the table into which the host's filter pushdown has moved the
\* conjuncts of the WHERE clause
FilteredTableScan(filters) == [TableScan(TRUE) EXCEPT !.table_filters = filters]

\* top-k queries whose WHERE clause the host has pushed into the table scan
FilteredScanQueries ==
    {[table |-> t,
      catalog |-> <<LanceOnVec(StrL2)>>,
      plan |-> <<LimitNode(LimitValue("CONSTANT_VALUE", k), LimitValue("UNSET", 0)),
                 OrderNode(<<DistanceOrder("ASCENDING", "array_distance", q)>>)>>
               \o f \o <<FilteredTableScan(<<PAtLeast1>>)>>] :
        t \in Tables, k \in 1..MaxK, q \in QueryVectors,
        f \in {<<>>, <<FilterNode(<<AbsSAtLeast1>>)>>}}

LimitValues ==
    {LimitValue("CONSTANT_VALUE", 1), LimitValue("CONSTANT_PERCENTAGE", 1),
     LimitValue("EXPRESSION_VALUE", 1), LimitValue("EXPRESSION_PERCENTAGE", 1)}
OffsetValues == LimitValues \cup {LimitValue("UNSET", 0), LimitValue("CONSTANT_VALUE", 0)}

OrderLists ==
    LET q == <<2, 1>>
        asc == DistanceOrder("ASCENDING", "array_distance", q)
    IN  {<<asc>>,
         <<DistanceOrder("DESCENDING", "array_distance", q)>>,
         <<asc, OrderBy("ASCENDING", VectorColumn)>>,
         <<OrderBy("ASCENDING", VectorColumn)>>,
         <<OrderBy("ASCENDING", FunctionCall("list_distance",
                                             <<VectorColumn, ValueConstant("ARRAY", q)>>))>>,
         <<OrderBy("ASCENDING", FunctionCall("array_distance",
                       <<VectorColumn, ValueConstant("ARRAY", q), ValueConstant("ARRAY", q)>>))>>,
         <<OrderBy("ASCENDING", FunctionCall("array_distance", <<VectorColumn, VectorColumn>>))>>,
         <<OrderBy("ASCENDING", FunctionCall("array_distance",
                                             <<VectorColumn, ValueConstant("VARCHAR", q)>>))>>,
         <<OrderBy("ASCENDING", FunctionCall("array_distance",
                                             <<VectorColumn, ValueConstant("ARRAY", <<>>)>>))>>,
         <<OrderBy("ASCENDING", FunctionCall("array_distance",
                                             <<VectorColumn, ValueConstant("LIST", q)>>))>>,
         <<OrderBy("ASCENDING", FunctionCall("array_distance",
                       <<FunctionCall("array_value", <<>>), ValueConstant("ARRAY", q)>>))>>}

\* what is under the LIMIT besides a well-formed ORDER BY over a scan
Subtrees ==
    LET filter == FilterNode(<<Conjunction("CONJUNCTION_AND", <<PAtLeast1, AbsSAtLeast1>>)>>)
        order == OrderNode(<<DistanceOrder("ASCENDING", "array_distance", <<2, 1>>)>>)
    IN  {<<OrderNode(o)>> \o below :
            o \in OrderLists,
            below \in {<<TableScan(TRUE)>>, <<filter, TableScan(TRUE)>>,
                       <<ProjectionNode, TableScan(TRUE)>>,
                       <<filter, ProjectionNode, TableScan(TRUE)>>}}
        \cup {<<order>> \o below :
                 below \in {<<filter>>, <<ProjectionNode>>, <<TableScan(FALSE)>>,
                            <<filter, TableScan(FALSE)>>,
                            <<ProjectionNode, filter, TableScan(TRUE)>>,
                            <<filter, filter, TableScan(TRUE)>>}}
        \cup {<<>>, <<TableScan(TRUE)>>, <<filter, order, TableScan(TRUE)>>}

Catalogs ==
    {<<>>, <<LanceOnVec(StrL2)>>, <<LanceOnVec(StrCosine)>>, <<LanceOnVec(StrIp)>>,
     <<IndexEntry(IndexName["s"], "HNSW", "vec", StrL2)>>,
     <<IndexEntry(IndexName["s"], "HNSW", "vec", StrL2), LanceOnVec(StrL2)>>,
     <<IndexEntry(IndexName["t"], "LANCE", "p", StrL2)>>}

\* queries around the shape the rewrite looks for, over one table
OtherQueries ==
    {[table |-> [r \in RowIds |-> [p |-> 1, s |-> r % 2]],
      catalog |-> c,
      plan |-> above \o <<LimitNode(l, o)>> \o sub] :
        c \in Catalogs, above \in {<<>>, <<ProjectionNode>>}, l \in LimitValues,
        o \in OffsetValues, sub \in Subtrees}

BoundQueries == TopKQueries \cup OtherQueries

(***************************************************************************)
(* Planning and running one query                                          *)
(***************************************************************************)
AllRows == [i \in 1..(MaxRowId + 1) |-> i - 1]

\* the metric of the table's LANCE index, l2 when the catalog has none
CatalogMetric(indexes) ==
    LET lance == SelectSeq(indexes, LAMBDA ix : ix.type = "LANCE")
    IN  IF lance = <<>> THEN StrL2 ELSE lance[1].metric

\* CREATE INDEX on the populated table: the index after one Append of all rows
BuiltIndex(metric) ==
    IndexAppend([NewIndex("t", TRUE) EXCEPT !.metric_ = metric], EmptyDataset,
                AllRows, 0, "none")

\* the query q is bound over its table, whose index holds every row; the
\* transaction of the query sees the rows visible (a row deleted from the
\* table stays in the index until the host cleans it up)
QueryBound(q, visible) ==
    /\ idx = BuiltIndex(CatalogMetric(q.catalog)).ix
    /\ eng = BuiltIndex(CatalogMetric(q.catalog)).e
    /\ deleted = {}
    /\ lastOp = NoOp
    /\ alloc = <<>>
    /\ info = NoInfo
    /\ table = q.table
    /\ catalog = q.catalog
    /\ original = q.plan
    /\ tree = q.plan
    /\ phase = "bound"
    /\ output = <<>>
    /\ registry = LoadInternal
    /\ source = NoSource
    /\ NoBuild
    /\ scan = [NoScanState EXCEPT !.visible = visible]

InitRewrite ==
    \/ \E q \in BoundQueries, visible \in SUBSET RowIds : QueryBound(q, visible)
    \/ \E q \in FilteredScanQueries, visible \in SUBSET RowIds : QueryBound(q, visible)

\* LanceOptimizerExtension::Optimize; an exception ends the query
Optimize ==
    /\ phase = "bound"
    /\ \E rewritten \in {TryRewrite(tree, 1, catalog)} :
          IF rewritten = InternalException
          THEN tree' = tree /\ phase' = "failed"
          ELSE tree' = rewritten /\ phase' = "optimized"
    /\ UNCHANGED <<indexVars, storageVars, buildVars, scan, registry, source, table, catalog, original, output>>

\* STANDARD_VECTOR_SIZE of the host, scaled down so that a scan of the
\* table's rows takes more than one batch
StandardVectorSize == 2

\* DataTable::Fetch: the rows of the batch that the transaction can see
StorageFetch(row_ids, visible) == SelectSeq(row_ids, LAMBDA r : r \in visible)

\* LanceIndexScanScan for one pull: the global state after it, the row ids
\* it handed to the fetch and the cardinality of its output chunk
LanceIndexScanPull(state) ==
    LET remaining == Len(state.results) - state.offset
        batch_size == Min(remaining, StandardVectorSize)
        row_ids == [i \in 1..batch_size |-> state.results[state.offset + i].row_id]
    IN  IF remaining = 0 THEN [state EXCEPT !.cardinality = 0]
        ELSE [state EXCEPT !.fetched = @ \o row_ids,
                           !.batches = Append(@, batch_size),
                           !.cardinality = Len(StorageFetch(row_ids, state.visible)),
                           !.offset = @ + batch_size]

\* the operator of the replacement scan is initialised: one Search when the
\* index is found
ScanInit ==
    /\ phase = "optimized" /\ IsIndexScan(tree) /\ scan.state = "none"
    /\ \E results \in LanceIndexScanInit(ScanOf(tree).bind_data, idx, eng, table) :
          scan' = [scan EXCEPT
                      !.state = "running", !.results = results,
                      !.searches = IF ScanOf(tree).bind_data.index_name = idx.name
                                   THEN 1 ELSE 0]
    /\ UNCHANGED <<indexVars, storageVars, queryVars, buildVars>>

\* the host pulls a chunk from the scan function and passes its rows through
\* the filter the rewrite left above the scan; a chunk the function leaves
\* empty ends the scan
ScanPull ==
    /\ scan.state = "running"
    /\ \E next \in {LanceIndexScanPull(scan)} :
          /\ scan' = [next EXCEPT !.state = IF next.cardinality = 0 THEN "ended"
                                            ELSE "running"]
          /\ output' = output \o
                SelectSeq(StorageFetch(SubSeq(next.fetched, Len(scan.fetched) + 1,
                                              Len(next.fetched)), scan.visible),
                          LAMBDA r : r \in Passing(table, FilterOf(tree)))
          /\ phase' = IF next.cardinality = 0 THEN "executed" ELSE phase
    /\ UNCHANGED <<indexVars, storageVars, buildVars, registry, source, table, catalog, original, tree>>

\* the optimized plan is still the host's sort over the table scan
ExecuteHost ==
    /\ phase = "optimized"
    /\ IsTopKPlan(tree)
    /\ output' \in HostResults(tree, table, scan.visible)
    /\ phase' = "executed"
    /\ UNCHANGED <<indexVars, storageVars, buildVars, scan, registry, source, table, catalog, original, tree>>

NextRewrite ==
    \/ Optimize
    \/ ScanInit
    \/ ScanPull
    \/ ExecuteHost

SpecRewrite == InitRewrite /\ [][NextRewrite]_vars

(***************************************************************************)
(* Properties of the rewrite                                               *)
(***************************************************************************)
\* the row sets the plan as bound may return
OriginalRowSets == {Range(h) : h \in HostResults(original, table, scan.visible)}

\* the executed plan is an index scan that replaced a plan of the shape
\* Limit k -> Order by distance -> [Filter] -> [Projection] -> Get
RewrittenAndRun == phase = "executed" /\ IsIndexScan(tree) /\ IsTopKPlan(original)

\* C4: for any table and any WHERE filter made of conjuncts, the plan
\* rewritten to an index scan returns the same set of rows as the plan as
\* bound, whether all, some or none of the conjuncts were pushed down
C4_PushdownSameRows ==
    (RewrittenAndRun /\ FilterOf(original) # <<>>) => Range(output) \in OriginalRowSets

\* C5: with no filter and no offset, the index scan that replaced ORDER BY
\* distance(column, constant) ASC LIMIT k returns the same set of rows as the
\* exact sort over all rows, up to the choice among rows of equal distance
C5_RewriteEqualsBruteForce ==
    (RewrittenAndRun /\ "LOGICAL_FILTER" \notin Range(NodeTypes(original)))
        => Range(output) \in OriginalRowSets

\* the LIMIT of the plan asks for an offset: a positive constant, an
\* expression or a percentage
RequestsOffset(plan) ==
    /\ LimitAt(plan) > 0
    /\ \/ LimitOf(plan).offset_val.type \in
             {"EXPRESSION_VALUE", "CONSTANT_PERCENTAGE", "EXPRESSION_PERCENTAGE"}
       \/ /\ LimitOf(plan).offset_val.type = "CONSTANT_VALUE"
          /\ LimitOf(plan).offset_val.value > 0

\* C6: whenever the Limit node requests any offset, the optimized plan is
\* the plan as bound and holds no index scan
C6_NoRewriteWithOffset ==
    (phase \in {"optimized", "executed"} /\ RequestsOffset(original))
        => (tree = original /\ ~IsIndexScan(tree))

\* the sort expression is a distance function of the column and a constant vector
RecognizedDistance(expr) ==
    /\ IsArrayDistanceFunction(expr)
    /\ Len(expr.children) = 2
    /\ expr.children[2].type = "VALUE_CONSTANT"
    /\ expr.children[2].logical_type \in {"ARRAY", "LIST"}

\* an index of the catalog is on the column of the distance function and
\* has its metric, dot and ip being one metric
CompatibleIndex(indexes, expr) ==
    \E i \in 1..Len(indexes) :
        /\ indexes[i].type = "LANCE"
        /\ expr.children[1].type = "BOUND_COLUMN_REF"
        /\ indexes[i].column = expr.children[1].name
        /\ \/ expr.name = "array_distance" /\ indexes[i].metric = StrL2
           \/ expr.name = "array_cosine_distance" /\ indexes[i].metric = StrCosine
           \/ expr.name = "array_inner_product" /\ indexes[i].metric \in {StrDot, StrIp}

\* the ways a Limit over an Order fails the pattern that C7 lists
LimitNotConstant(plan) ==
    LimitAt(plan) > 0 /\ LimitOf(plan).limit_val.type # "CONSTANT_VALUE"
SortedBelowLimit(plan) ==
    /\ LimitAt(plan) > 0
    /\ Len(plan) > LimitAt(plan)
    /\ OrderOf(plan).type = "LOGICAL_ORDER_BY"
SortNotRecognized(plan) ==
    /\ SortedBelowLimit(plan)
    /\ \/ Len(OrderOf(plan).orders) > 1
       \/ OrderOf(plan).orders[1].type = "DESCENDING"
       \/ ~RecognizedDistance(OrderOf(plan).orders[1].expression)
NoCompatibleIndex(plan, indexes) ==
    /\ SortedBelowLimit(plan)
    /\ RecognizedDistance(OrderOf(plan).orders[1].expression)
    /\ ~CompatibleIndex(indexes, OrderOf(plan).orders[1].expression)

\* C7: when the limit is not a constant, the sort has several keys, is
\* descending or is not a distance to a constant vector, or no index on the
\* column has a compatible metric, Optimize leaves the plan exactly as bound
C7_BailOutLeavesPlan ==
    (/\ phase \in {"optimized", "executed"}
     /\ \/ LimitNotConstant(original)
        \/ SortNotRecognized(original)
        \/ NoCompatibleIndex(original, catalog))
        => tree = original

\* Optimize has run on a plan whose filter holds an AND and for whose
\* distance function the catalog has only an index of another metric
C7_Witness ==
    /\ phase = "optimized"
    /\ NoCompatibleIndex(original, catalog)
    /\ catalog # <<>>
    /\ \E i \in 1..Len(original) :
          /\ original[i].type = "LOGICAL_FILTER"
          /\ original[i].expressions # <<>>
          /\ original[i].expressions[1].class = "BOUND_CONJUNCTION"
    /\ tree = original

(***************************************************************************)
(* The index scan, pull by pull (LanceIndexScanInit, LanceIndexScanScan)   *)
(***************************************************************************)
\* the queries of the scan: the nearest k rows of a table whose every row is
\* in the index, k up to the number of rows
ScanTable == [r \in RowIds |-> [p |-> 1, s |-> 1]]

ScanQueries ==
    {[table |-> ScanTable,
      catalog |-> <<LanceOnVec(StrL2)>>,
      plan |-> <<LimitNode(LimitValue("CONSTANT_VALUE", k), LimitValue("UNSET", 0)),
                 OrderNode(<<DistanceOrder("ASCENDING", "array_distance", q)>>),
                 TableScan(TRUE)>>] :
        k \in 1..(MaxRowId + 1), q \in QueryVectors}

InitScan ==
    \E q \in ScanQueries, visible \in SUBSET RowIds :
        /\ idx = BuiltIndex(StrL2).ix
        /\ eng = BuiltIndex(StrL2).e
        /\ deleted = {}
        /\ lastOp = NoOp
        /\ alloc = <<>>
        /\ info = NoInfo
        /\ table = q.table
        /\ catalog = q.catalog
        /\ original = q.plan
        /\ tree = q.plan
        /\ phase = "bound"
        /\ output = <<>>
        /\ registry = LoadInternal
        /\ source = NoSource
        /\ NoBuild
        /\ scan = [NoScanState EXCEPT !.visible = visible]

NextScan ==
    \/ Optimize
    \/ ScanInit
    \/ ScanPull

SpecScan == InitScan /\ [][NextScan]_vars

\* the row ids LanceIndexScanInit captured, in order
Captured == [i \in 1..Len(scan.results) |-> scan.results[i].row_id]

\* C19: the scan calls Search once, at initialisation; what it has handed to
\* the fetch is always the first offset captured row ids, in order, in
\* batches of at most StandardVectorSize; the offset never exceeds the number
\* of captured results and never shrinks; when the scan has ended every
\* captured row id has been handed to the fetch.
C19_ScanSubmitsEachRowOnce ==
    /\ [](scan.state # "none"
            => /\ scan.searches = 1
               /\ scan.offset <= Len(scan.results)
               /\ scan.fetched = SubSeq(Captured, 1, scan.offset)
               /\ \A b \in 1..Len(scan.batches) : scan.batches[b] <= StandardVectorSize
               /\ scan.state = "ended" => scan.fetched = Captured)
    /\ [][scan'.offset >= scan.offset]_vars

\* C20: a pull yields an empty chunk only when every captured row id has
\* been handed to the fetch, also when the fetch dropped every row of the
\* batch.
C20_EmptyChunkOnlyWhenExhausted ==
    scan.cardinality = 0 => scan.offset = Len(scan.results)

(***************************************************************************)
(* The listing function lance_info (lance_list.cpp)                        *)
(***************************************************************************)
\* the index entries of the catalog, by what reading the index does: "ok",
\* "no_table" (the table lookup throws), "count_fails" (LanceDetachedCount
\* throws after the dimension was read), "not_found" (Find returns null)
MaxIndexes == 3

MaxCount == 1

ListReads == {"ok", "no_table", "count_fails", "not_found"}

ListEntries ==
    {[index_type |-> "ART", read |-> "ok", count |-> 0]}
    \cup {[index_type |-> "LANCE", read |-> r, count |-> n] :
             r \in ListReads, n \in 0..MaxCount}

ListCatalogs == UNION {[1..n -> ListEntries] : n \in 0..MaxIndexes}

\* what an uninitialized int32_t / int64_t field of LanceInfoEntry may hold:
\* what an earlier entry left in the stack slot (a dimension, a count, the
\* sentinel of the catch block) or any other bit pattern, for which the
\* largest integer of the model stands
Indeterminate == (-1..MaxCount) \cup {Dimension, MaxInt}

CatalogException == [type |-> "CatalogException", prefix |-> <<>>, message |-> <<116>>]

\* std::exception::what() of a host exception: its type and its message
What(ex) == [exception_type |-> ex.type, exception_message |-> <<ex.prefix, ex.message>>]

\* the catch block of LanceInfoInit without the two sentinel assignments
LanceInfoCatchKeepsFields(e, ex) == [e EXCEPT !.metric = What(ex)]

\* the catch block of LanceInfoInit
LanceInfoCatch(e, ex) ==
    [e EXCEPT !.dimension = -1, !.vector_count = -1, !.metric = What(ex)]

\* the body of the scan callback for the i-th entry of the catalog: the
\* entry it pushes; garbage is what the entry's integer fields hold before
\* they are assigned
LanceInfoEntry(i, entry, garbage) ==
    LET e == [name |-> <<105, 48 + i>>, table_name |-> <<116>>, metric |-> <<>>,
              dimension |-> garbage[1], vector_count |-> garbage[2]]
    IN  CASE entry.read = "no_table" -> LanceInfoCatch(e, CatalogException)
          [] entry.read = "count_fails" ->
                LanceInfoCatch([e EXCEPT !.dimension = Dimension],
                               LanceCountWrapper("count", -1, <<101>>).result)
          [] entry.read = "not_found" -> e
          [] OTHER -> [e EXCEPT !.dimension = Dimension,
                                !.vector_count =
                                    LanceCountWrapper("count", entry.count, <<>>).result,
                                !.metric = StrL2]

\* the positions of the catalog's LANCE entries, in scan order
RECURSIVE LancePositions(_, _)
LancePositions(entries, i) ==
    IF i > Len(entries) THEN <<>>
    ELSE (IF entries[i].index_type # "LANCE" THEN <<>> ELSE <<i>>)
         \o LancePositions(entries, i + 1)

NoInfoState == [state |-> "none", entries |-> <<>>, position |-> 0, cardinality |-> -1]

InitList ==
    /\ \E extra \in BOOLEAN : idx = NewIndex("t", extra)
    /\ eng = EmptyDataset
    /\ deleted = {}
    /\ lastOp = NoOp
    /\ alloc = <<>>
    /\ info = NoInfo
    /\ table = [r \in RowIds |-> [p |-> 0, s |-> 0]]
    /\ catalog \in ListCatalogs
    /\ original = <<>>
    /\ tree = <<>>
    /\ phase = "idle"
    /\ output = <<>>
    /\ registry = NoRegistry
    /\ source = NoSource
    /\ NoBuild
    /\ scan = NoInfoState

\* the names a statement may call a table function by
TableFunctionNames == {"lance_search", "lance_create_ann_index", "lance_create_hnsw_index",
                       "lance_info"}

\* the extension is loaded into the database instance
LoadExtension ==
    /\ registry = NoRegistry
    /\ registry' = LoadInternal
    /\ UNCHANGED <<indexVars, storageVars, buildVars, scan, source, table, catalog, original,
                   tree, phase, output>>

\* the host binds a call of a table function by name: a catalog error when
\* no function of that name is registered; a bound lance_info goes on to run
BindTableFunction ==
    /\ phase = "idle"
    /\ \E name \in TableFunctionNames :
          /\ lastOp' = [NoOp EXCEPT !.op = "bind", !.arg = name,
                                    !.status = IF name \in registry.table_functions
                                               THEN "ok" ELSE "error"]
          /\ phase' = IF name = "lance_info" /\ name \in registry.table_functions
                      THEN "bound" ELSE phase
    /\ UNCHANGED <<idx, eng, deleted, storageVars, buildVars, scan, registry, source, table, catalog,
                   original, tree, output>>

\* LanceInfoInit: one entry per LANCE index of the catalog
LanceInfoInit ==
    /\ phase = "bound" /\ scan.state = "none"
    /\ \E garbage \in [1..Len(catalog) -> Indeterminate \X Indeterminate] :
          /\ \A i \in 1..Len(catalog) :
                ~(catalog[i].index_type = "LANCE" /\ catalog[i].read = "not_found")
                   => garbage[i] = <<0, 0>>
          /\ scan' = [NoInfoState EXCEPT
                         !.state = "running",
                         !.entries = LET at == LancePositions(catalog, 1)
                                     IN  [j \in 1..Len(at) |->
                                             LanceInfoEntry(at[j], catalog[at[j]],
                                                            garbage[at[j]])]]
    /\ UNCHANGED <<indexVars, storageVars, buildVars, registry, source, table, catalog,
                   original, tree, phase, output>>

\* LanceInfoScan: the next chunk of entries; an empty chunk ends the scan
LanceInfoScan ==
    /\ scan.state = "running"
    /\ \E chunk_size \in {IF scan.position >= Len(scan.entries) THEN 0
                          ELSE Min(StandardVectorSize,
                                   Len(scan.entries) - scan.position)} :
          /\ scan' = [scan EXCEPT !.position = @ + chunk_size,
                                  !.cardinality = chunk_size,
                                  !.state = IF chunk_size = 0 THEN "ended" ELSE "running"]
          /\ output' = output \o SubSeq(scan.entries, scan.position + 1,
                                        scan.position + chunk_size)
          /\ phase' = IF chunk_size = 0 THEN "executed" ELSE phase
    /\ UNCHANGED <<indexVars, storageVars, buildVars, registry, source, table, catalog, original, tree>>

NextList ==
    \/ LoadExtension
    \/ BindTableFunction
    \/ LanceInfoInit
    \/ LanceInfoScan

SpecList == InitList /\ [][NextList]_vars

\* the read of an index fails: the try block of LanceInfoInit throws
ReadFails(entry) == entry.read \in {"no_table", "count_fails"}

\* C21: when the listing has ended it has emitted exactly one row per LANCE
\* index of the catalog, in catalog order; the row of an index whose read
\* failed carries dimension -1, vector_count -1 and the exception's text, and
\* the row of an index whose read succeeded carries what was read.
C21_OneRowPerLanceIndex ==
    phase = "executed" =>
        LET at == LancePositions(catalog, 1)
        IN  /\ Len(output) = Len(at)
            /\ Cardinality({i \in 1..Len(catalog) : catalog[i].index_type = "LANCE"})
                  = Len(output)
            /\ \A j \in 1..Len(at) :
                  /\ output[j].name = <<105, 48 + at[j]>>
                  /\ ReadFails(catalog[at[j]])
                        => /\ output[j].dimension = -1
                           /\ output[j].vector_count = -1
                           /\ output[j].metric.exception_type
                                 \in {"IOException", "CatalogException"}
                  /\ catalog[at[j]].read = "ok"
                        => /\ output[j].dimension = Dimension
                           /\ output[j].vector_count = catalog[at[j]].count

\* a listing over three LANCE indexes of which the middle one fails at the
\* count, after its dimension was read, has ended
C21_Witness ==
    /\ phase = "executed"
    /\ Len(catalog) = 3
    /\ \A i \in 1..3 : catalog[i].index_type = "LANCE"
    /\ catalog[1].read = "ok" /\ catalog[2].read = "count_fails" /\ catalog[3].read = "ok"
    /\ Len(output) = 3
    /\ output[2].dimension = -1

\* C22: once the extension is loaded, the ANN build function and the HNSW
\* build function are both registered, and a call of either by name binds.
C22_BuildFunctionsRegistered ==
    /\ registry # NoRegistry
          => {"lance_create_ann_index", "lance_create_hnsw_index"}
                \subseteq registry.table_functions
    /\ (lastOp.op = "bind" /\ registry # NoRegistry
           /\ lastOp.arg \in {"lance_create_ann_index", "lance_create_hnsw_index"})
          => lastOp.status = "ok"

(***************************************************************************)
(* Properties of the pushed predicate                                      *)
(***************************************************************************)
\* the conjuncts of the filter of the plan as bound, as TryRewrite splits them
SplitConjuncts == SplitPredicates(FilterOf(original), 1)

Translatable(expr) == ExpressionToLancePredicate(expr, ScanOf(original)).ok

\* the optimizer has replaced a plan of the shape Limit k -> Order by
\* distance -> Filter -> [Projection] -> Get by an index scan
RewrittenWithFilter ==
    /\ phase \in {"optimized", "executed"}
    /\ IsIndexScan(tree)
    /\ IsTopKPlan(original)
    /\ FilterOf(original) # <<>>

\* C23: the predicate string of the replacement scan, read with NOT binding
\* tighter than AND and AND tighter than OR, holds on a row of the table
\* exactly when every translatable conjunct of the filter holds on it.
C23_PredicateIsConjunction ==
    RewrittenWithFilter =>
        \A r \in RowIds :
            PredicateHolds(ScanOf(tree).bind_data.predicate, TableRow(table, r))
            <=> \A i \in 1..Len(SplitConjuncts) :
                    Translatable(SplitConjuncts[i])
                        => ExpressionHolds(SplitConjuncts[i], TableRow(table, r))

\* C24: after the rewrite the filter node holds exactly the untranslatable
\* conjuncts and is gone exactly when there are none, and every row the
\* rewritten plan returns satisfies every conjunct of the filter, the
\* translatable ones through the predicate of the search.
C24_EveryConjunctApplied ==
    (RewrittenWithFilter /\ phase = "executed") =>
        LET remaining == SelectSeq(SplitConjuncts, LAMBDA c : ~Translatable(c))
        IN  /\ FilterOf(tree) = remaining
            /\ ("LOGICAL_FILTER" \in Range(NodeTypes(tree))) <=> (remaining # <<>>)
            /\ \A r \in Range(output) : \A i \in 1..Len(SplitConjuncts) :
                  ExpressionHolds(SplitConjuncts[i], TableRow(table, r))

\* C25: every row the rewritten plan returns passes the table filters of the
\* scan node of the plan as bound.
C25_ScanFiltersKept ==
    (RewrittenAndRun /\ ScanOf(original).table_filters # <<>>) =>
        \A r \in Range(output) : \A i \in 1..Len(ScanOf(original).table_filters) :
            ExpressionHolds(ScanOf(original).table_filters[i], TableRow(table, r))

\* C26: no pair of a Search result carries the row id -1: Search leaves out
\* the labels that are negative, beyond the forward mapping, or whose
\* forward slot holds the -1 sentinel.
C26_SearchOmitsSentinel ==
    (lastOp.op = "Search" /\ lastOp.status = "ok")
        => \A i \in 1..Len(lastOp.result) : lastOp.result[i].row_id # -1

\* the forward mapping of the metadata image last written: what reading the
\* chain from the index's root block yields
PersistedForward ==
    LoadFromStorage(NewIndex("t", FALSE), [valid |-> TRUE, root |-> idx.root_block_ptr_],
                    alloc, [handle |-> NullHandle, extra |-> FALSE]).ix.label_to_rowid_

\* C27: while the index holds a handle and is_dirty_ is false, the forward
\* mapping of the last persisted image equals label_to_rowid_, also after an
\* operation that ended with an engine error.
C27_CleanMeansPersisted ==
    (Serving /\ idx.rust_handle_ # NullHandle /\ ~idx.is_dirty_ /\ idx.root_block_ptr_ # 0)
        => PersistedForward = idx.label_to_rowid_

\* C28: while the engine holds vectors deleted since its last compaction,
\* has_pending_deletes_ is true, also after the index was persisted and
\* loaded again.
C28_PendingDeletesTracked ==
    (Serving /\ idx.rust_handle_ # NullHandle /\ eng.tomb # {}) => idx.has_pending_deletes_

(***************************************************************************)
(* The bulk build alone: chunks of up to MaxBatch rows of the table, the    *)
(* engine free to skip labels before a batch                               *)
(***************************************************************************)
BuildSink == SinkStep(RowIds, MaxBatch, 0..MaxGap)

NextBuild ==
    \/ GetGlobalSinkState
    \/ BuildSink
    \/ Finalize
    \/ DestroySink

SpecBuild == InitLifecycle /\ [][NextBuild]_vars

\* the two tables map each row id to its label and that label back to the
\* row id
MutualInverses(label_to_rowid, rowid_to_label) ==
    \A r \in DOMAIN rowid_to_label :
        /\ rowid_to_label[r] >= 0
        /\ rowid_to_label[r] < Len(label_to_rowid)
        /\ label_to_rowid[rowid_to_label[r] + 1] = r

\* the label under which the engine holds the vector of row r
EngineLabelOf(r) == CHOOSE l \in DOMAIN eng.vecs : eng.vecs[l] = RowVec(r)

\* C29: during a bulk build the staged tables are mutual inverses and map
\* every sunk row to the label the engine gave it, whatever labels the engine
\* returned, and the index Finalize produces starts with such a mapping.
C29_StagedMappingConsistent ==
    /\ life.sink = "alive"
          => /\ MutualInverses(sink.label_to_rowid, sink.rowid_to_label)
             /\ \A r \in DOMAIN sink.rowid_to_label :
                   sink.rowid_to_label[r] = EngineLabelOf(r)
    /\ (lastOp.op = "Finalize" /\ life.index = "alive")
          => MutualInverses(idx.label_to_rowid_, idx.rowid_to_label_)

(***************************************************************************)
(* A Search that runs while an Append or a Delete is between its engine    *)
(* call and its mapping update; no function of LanceIndex takes a lock     *)
(***************************************************************************)
\* the searching thread is in no Search. A Search is in state "called" from
\* its engine call to the end of its result loop: answer is what the engine
\* returned, pos the entries the loop has read, results the pairs it has
\* emplaced; during is "Append" when the writer has been between the engine
\* calls and the mapping loop of an Append for the whole Search so far,
\* "Delete" when it has been between the loop and the engine call of a
\* Delete, and mapped then holds the row ids the index maps before or after
\* that call
NoSearch ==
    [state |-> "none", answer |-> <<>>, pos |-> 0, results |-> <<>>, during |-> "none",
     mapped |-> {}]

\* the capacity of label_to_rowid_ (a std::vector) is kept with the index
\* where threads race: a resize beyond it moves the elements to a new buffer
\* and frees the old one
WithCapacity(ix, c) == [label_to_rowid_capacity |-> c] @@ ix

\* the capacity after resize(new_size): unchanged when it suffices, else the
\* size plus the larger of the size and the number of new elements
GrownCapacity(ix, new_size) ==
    IF new_size <= ix.label_to_rowid_capacity THEN ix.label_to_rowid_capacity
    ELSE Len(ix.label_to_rowid_)
         + (IF Len(ix.label_to_rowid_) > new_size - Len(ix.label_to_rowid_)
            THEN Len(ix.label_to_rowid_) ELSE new_size - Len(ix.label_to_rowid_))

\* label_to_rowid_.resize(label + 1, -1)
ResizeForward(ix, label) ==
    [ix EXCEPT !.label_to_rowid_ = @ \o Fill(label + 1 - Len(@), NoRow),
               !.label_to_rowid_capacity = GrownCapacity(ix, label + 1)]

\* the writer is inside a call: lastOp holds the call, the index and the
\* dataset as they were when it began, the engine's gap, and pc, the next
\* engine call or write of the call
Running(op, rows, ix, e, gap, pc) ==
    [NoOp EXCEPT !.op = op, !.rows = rows, !.status = "running",
                 !.arg = [ix |-> ix, e |-> e, gap |-> gap, pc |-> pc]]

\* the writer is in the call op, before the step pc
WriterAt(op, pcs) ==
    lastOp.status = "running" /\ lastOp.op = op /\ lastOp.arg.pc \in pcs

\* a step of the writer: a Search in flight has seen the writer move, a
\* Search that has returned is forgotten
WriterMoves ==
    scan' = IF scan.state = "called" THEN [scan EXCEPT !.during = "none"] ELSE NoSearch

InitConcurrent ==
    /\ idx = WithCapacity(NewIndex("t", FALSE), 0)
    /\ eng = EmptyDataset
    /\ deleted = {}
    /\ lastOp = NoOp
    /\ alloc = <<>>
    /\ info = NoInfo
    /\ NoQuery
    /\ NoBuild
    /\ scan = NoSearch

\* the next engine call of an Append of one row: the create call of an
\* index without a handle, which stores the handle, or the add call, which
\* puts the vector into the dataset; the mapping loop has not run. A call
\* that fails ends the Append
AppendEngineCall ==
    /\ \/ /\ lastOp.status # "running"
          /\ \E row_id \in RowIds \ Mapped, gap \in 0..MaxGap, fail \in BOOLEAN :
                /\ eng.next + gap + 1 <= MaxLabel
                /\ IF AppendOpens(idx)
                   THEN \E r \in {IndexAppend(idx, eng, <<row_id>>, gap,
                                              IF fail THEN "create" ELSE "add")} :
                           /\ idx' = r.ix
                           /\ eng' = r.e
                           /\ lastOp' = IF fail THEN Done("Append", <<row_id>>, r)
                                        ELSE Running("Append", <<row_id>>, idx, eng, gap, "add")
                   ELSE \E r \in {IndexAppend(idx, eng, <<row_id>>, gap,
                                              IF fail THEN "add" ELSE "none")} :
                           /\ idx' = idx
                           /\ eng' = r.e
                           /\ lastOp' = IF fail THEN Done("Append", <<row_id>>, r)
                                        ELSE Running("Append", <<row_id>>, idx, eng, gap,
                                                     "test")
       \/ /\ WriterAt("Append", {"add"})
          /\ \E fail \in BOOLEAN :
                \E r \in {IndexAppend(lastOp.arg.ix, lastOp.arg.e, lastOp.rows,
                                      lastOp.arg.gap, IF fail THEN "add" ELSE "none")} :
                   /\ idx' = idx
                   /\ eng' = r.e
                   /\ lastOp' = IF fail THEN Done("Append", lastOp.rows, r)
                                ELSE [lastOp EXCEPT !.arg.pc = "test"]
    /\ UNCHANGED <<deleted, storageVars, queryVars, sink>>
    /\ WriterMoves
    /\ TrackIndex

\* the next step of the mapping loop of the Append: the test label >=
\* label_to_rowid_.size(), which enters the resize or passes it by; the end
\* of label_to_rowid_.resize(label + 1, -1), until which the vector is in the
\* middle of the resize; label_to_rowid_[label] = row_id;
\* rowid_to_label_[row_id] = label; and after the loop is_dirty_ = true
AppendMappingUpdate ==
    /\ WriterAt("Append", {"test", "resize", "forward", "reverse", "dirty"})
    /\ \E r \in {IndexAppend(lastOp.arg.ix, lastOp.arg.e, lastOp.rows, lastOp.arg.gap,
                             "none")} :
          \E row_id \in {lastOp.rows[1]} :
             \E label \in {r.ix.rowid_to_label_[row_id]} :
                CASE lastOp.arg.pc = "test" ->
                        /\ idx' = idx
                        /\ lastOp' = [lastOp EXCEPT !.arg.pc =
                                         IF label >= Len(idx.label_to_rowid_)
                                         THEN "resize" ELSE "forward"]
                        /\ deleted' = deleted
                  [] lastOp.arg.pc = "resize" ->
                        /\ idx' = ResizeForward(idx, label)
                        /\ lastOp' = [lastOp EXCEPT !.arg.pc = "forward"]
                        /\ deleted' = deleted
                  [] lastOp.arg.pc = "forward" ->
                        /\ idx' = [idx EXCEPT !.label_to_rowid_[label + 1] = row_id]
                        /\ lastOp' = [lastOp EXCEPT !.arg.pc = "reverse"]
                        /\ deleted' = deleted
                  [] lastOp.arg.pc = "reverse" ->
                        /\ idx' = [idx EXCEPT !.rowid_to_label_ = Put(@, row_id, label)]
                        /\ lastOp' = [lastOp EXCEPT !.arg.pc = "dirty"]
                        /\ deleted' = deleted
                  [] OTHER ->
                        /\ idx' = [idx EXCEPT !.is_dirty_ = TRUE]
                        /\ lastOp' = Done("Append", lastOp.rows, r)
                        /\ deleted' = deleted \ Range(lastOp.rows)
    /\ UNCHANGED <<eng, storageVars, queryVars, sink>>
    /\ WriterMoves
    /\ TrackIndex

\* the next write of the loop of a Delete of one row: label_to_rowid_[label]
\* = -1, then the erase of the reverse entry; a Delete of a row id the index
\* does not map makes no engine call and ends with is_dirty_ = true
DeleteMappingUpdate ==
    /\ \/ /\ lastOp.status # "running"
          /\ \E row_id \in RowIds :
                /\ deleted' = deleted \cup {row_id}
                /\ IF row_id \notin DOMAIN idx.rowid_to_label_
                   THEN \E r \in {IndexDelete(idx, eng, <<row_id>>, FALSE)} :
                           /\ idx' = r.ix
                           /\ lastOp' = Done("Delete", <<row_id>>, r)
                   ELSE /\ idx' = [idx EXCEPT !.label_to_rowid_ =
                                      DeleteMapping([label_to_rowid_ |-> idx.label_to_rowid_,
                                                     rowid_to_label_ |-> idx.rowid_to_label_,
                                                     labels_to_delete |-> <<>>],
                                                    row_id).label_to_rowid_]
                        /\ lastOp' = Running("Delete", <<row_id>>, idx, eng, 0, "erase")
       \/ /\ WriterAt("Delete", {"erase"})
          /\ idx' = [idx EXCEPT !.rowid_to_label_ = Erase(@, lastOp.rows[1])]
          /\ lastOp' = [lastOp EXCEPT !.arg.pc = "call"]
          /\ deleted' = deleted
    /\ UNCHANGED <<eng, storageVars, queryVars, sink>>
    /\ WriterMoves
    /\ TrackIndex

\* the engine call of the Delete and the writes that follow it:
\* has_pending_deletes_ = true and is_dirty_ = true; a call that fails ends
\* the Delete
DeleteEngineCall ==
    /\ \/ /\ WriterAt("Delete", {"call"})
          /\ \E fail \in BOOLEAN :
                \E r \in {IndexDelete(lastOp.arg.ix, lastOp.arg.e, lastOp.rows, fail)} :
                   /\ fail => r.status = "error"
                   /\ idx' = idx
                   /\ eng' = r.e
                   /\ lastOp' = IF fail THEN Done("Delete", lastOp.rows, r)
                                ELSE [lastOp EXCEPT !.arg.pc =
                                         IF r.calls = <<>> THEN "dirty" ELSE "pending"]
       \/ /\ WriterAt("Delete", {"pending"})
          /\ idx' = [idx EXCEPT !.has_pending_deletes_ = TRUE]
          /\ eng' = eng
          /\ lastOp' = [lastOp EXCEPT !.arg.pc = "dirty"]
       \/ /\ WriterAt("Delete", {"dirty"})
          /\ idx' = [idx EXCEPT !.is_dirty_ = TRUE]
          /\ eng' = eng
          /\ lastOp' = Done("Delete", lastOp.rows,
                            IndexDelete(lastOp.arg.ix, lastOp.arg.e, lastOp.rows, FALSE))
    /\ UNCHANGED <<deleted, storageVars, queryVars, sink>>
    /\ WriterMoves
    /\ TrackIndex

\* a call of the writer has returned: the index and the dataset are what the
\* whole call gives, the capacity of the vector apart
WriterStepsMakeCall ==
    [][(lastOp.status = "running" /\ lastOp'.status = "ok") =>
          /\ lastOp.op = "Append" =>
                /\ [idx' EXCEPT !.label_to_rowid_capacity =
                                   lastOp.arg.ix.label_to_rowid_capacity]
                      = IndexAppend(lastOp.arg.ix, lastOp.arg.e, lastOp.rows,
                                    lastOp.arg.gap, "none").ix
                /\ eng' = IndexAppend(lastOp.arg.ix, lastOp.arg.e, lastOp.rows,
                                      lastOp.arg.gap, "none").e
          /\ lastOp.op = "Delete" =>
                /\ idx' = IndexDelete(lastOp.arg.ix, lastOp.arg.e, lastOp.rows, FALSE).ix
                /\ eng' = IndexDelete(lastOp.arg.ix, lastOp.arg.e, lastOp.rows, FALSE).e]_vars

\* the row ids the index maps before and after the call the writer is in
MappedAround ==
    IF lastOp.status # "running" THEN Mapped
    ELSE DOMAIN lastOp.arg.ix.rowid_to_label_
         \cup (IF lastOp.op = "Append" THEN Range(lastOp.rows) ELSE {})

\* the writer is inside label_to_rowid_.resize, and the resize moves the
\* elements to a new buffer
Reallocating ==
    /\ WriterAt("Append", {"resize"})
    /\ LET label == IndexAppend(lastOp.arg.ix, lastOp.arg.e, lastOp.rows, lastOp.arg.gap,
                                "none").ix.rowid_to_label_[lastOp.rows[1]]
       IN  label + 1 > idx.label_to_rowid_capacity

\* what a read of the vector beside a resize that reallocates can give as a
\* row id: any value of the freed or the new buffer
RacedValues == RowIds \cup {NoRow, MaxInt, -1 - MaxInt}

\* one pass of the result loop of Search on the entry found: the pairs it
\* emplaces. Beside a resize of the writer the size and the element are read
\* from a vector in the middle of the resize: when it reallocates, the test
\* can fail or pass and the element can be any value; when it does not, the
\* vector is the old or the grown one
SearchTranslateOne(ix, found) ==
    IF found.label < 0 THEN {<<>>}
    ELSE IF Reallocating
    THEN {<<>>} \cup {<<[row_id |-> v, distance |-> found.distance]>> : v \in RacedValues}
    ELSE IF WriterAt("Append", {"resize"})
    THEN {SearchTranslate(ix, <<found>>, 1),
          SearchTranslate([ix EXCEPT !.label_to_rowid_ =
                                        @ \o Fill(found.label + 1 - Len(@), NoRow)],
                          <<found>>, 1)}
    ELSE {SearchTranslate(ix, <<found>>, 1)}

\* the writer is between the engine calls and the mapping loop of an Append,
\* or between the loop and the engine call of a Delete
WriterBetween ==
    IF WriterAt("Append", {"test"}) THEN "Append"
    ELSE IF WriterAt("Delete", {"call"}) THEN "Delete"
    ELSE "none"

\* the queries of the searching thread
ConcurrentQueries == {<<2, 1>>}

\* a Search on another thread, between any two steps of the writer: the
\* early return, or the engine call, whose answer the Search holds
ConcurrentSearch ==
    /\ scan.state # "called"
    /\ \E query \in ConcurrentQueries, k \in {MaxK} :
          IF ~SearchCallsEngine(idx, query)
          THEN scan' = [NoSearch EXCEPT !.state = "done", !.during = WriterBetween,
                                        !.mapped = IF WriterBetween = "none" THEN {}
                                                   ELSE MappedAround]
          ELSE \E found \in EngineSearch(eng, idx.metric_, query, k) :
                  scan' = [NoSearch EXCEPT !.state = "called", !.answer = found,
                                           !.during = WriterBetween]
    /\ UNCHANGED <<indexVars, storageVars, queryVars, buildVars>>

\* the next pass of the result loop of the Search, or its return after the
\* last one
ConcurrentTranslate ==
    /\ scan.state = "called"
    /\ IF scan.pos < Len(scan.answer)
       THEN \E pairs \in SearchTranslateOne(idx, scan.answer[scan.pos + 1]) :
               scan' = [scan EXCEPT !.pos = @ + 1, !.results = @ \o pairs]
       ELSE scan' = [scan EXCEPT !.state = "done",
                                 !.mapped = IF scan.during = "none" THEN {}
                                            ELSE MappedAround]
    /\ UNCHANGED <<indexVars, storageVars, queryVars, buildVars>>

NextConcurrent ==
    \/ AppendEngineCall
    \/ AppendMappingUpdate
    \/ DeleteMappingUpdate
    \/ DeleteEngineCall
    \/ ConcurrentSearch
    \/ ConcurrentTranslate

SpecConcurrent == InitConcurrent /\ [][NextConcurrent]_vars

\* C30: every pair of a Search that ran while an Append or a Delete was
\* between its engine call and its mapping update carries a row id the index
\* maps before or after that call, never the -1 sentinel.
C30_ConcurrentSearchRowIds ==
    (scan.state = "done" /\ scan.during \in {"Append", "Delete"})
        => \A i \in 1..Len(scan.results) :
              /\ scan.results[i].row_id # NoRow
              /\ scan.results[i].row_id \in scan.mapped

(***************************************************************************)
(* Properties of single calls: Vacuum, Append, Delete, MergeIndexes        *)
(***************************************************************************)

\* C31: Vacuum with no pending deletes, or with no engine handle, changes
\* nothing and calls nothing; with pending deletes it calls the engine's
\* compaction exactly once, then clears has_pending_deletes_ and sets
\* is_dirty_, leaving both mapping tables unchanged; when the compaction
\* fails has_pending_deletes_ stays set.
C31_VacuumCompactsOnce ==
    [][lastOp'.op = "Vacuum" =>
          IF ~idx.has_pending_deletes_ \/ idx.rust_handle_ = NullHandle
          THEN /\ idx' = idx
               /\ eng' = eng
               /\ lastOp'.calls = <<>>
               /\ lastOp'.status = "ok"
          ELSE /\ lastOp'.calls = <<Call("compact", <<>>)>>
               /\ Mappings(idx') = Mappings(idx)
               /\ lastOp'.status = "ok" =>
                     /\ ~idx'.has_pending_deletes_
                     /\ idx'.is_dirty_
                     /\ eng' = EngineCompact(eng)
               /\ lastOp'.status = "error" => idx'.has_pending_deletes_]_vars

\* a Vacuum has compacted the dataset of an index that maps a row and has an
\* unassigned slot
C31_Witness ==
    /\ lastOp.op = "Vacuum" /\ lastOp.status = "ok" /\ lastOp.calls # <<>>
    /\ ~idx.has_pending_deletes_
    /\ DOMAIN idx.rowid_to_label_ # {}
    /\ \E l \in 1..Len(idx.label_to_rowid_) : idx.label_to_rowid_[l] = NoRow

CreateCalls == {"create", "create_from_arrow"}

IssuesCreate(op) == \E i \in 1..Len(op.calls) : op.calls[i].fn \in CreateCalls

\* C32: the first non-empty Append opens the handle and every later Append
\* reuses it, so the engine's create call is issued at most once per index:
\* no two calls in a row both issue it.
C32_CreateIssuedOnce ==
    [][~(IssuesCreate(lastOp) /\ IssuesCreate(lastOp'))]_vars

\* the labels the engine returned to the Append step that added n vectors
AppendedLabels(n) == [i \in 1..n |-> eng'.next - n + i - 1]

\* C33: a successful Append of rows r_1..r_n for which the engine returns
\* labels l_1..l_n sets label_to_rowid_[l_i] = r_i and rowid_to_label_[r_i]
\* = l_i for every i, grows the forward array to cover the largest label with
\* every new gap slot set to -1, leaves all other existing entries unchanged
\* and sets is_dirty_.
C33_AppendRecordsPairs ==
    [][(lastOp'.op = "Append" /\ lastOp'.status = "ok" /\ lastOp'.rows # <<>>) =>
          LET rows == lastOp'.rows
              n == Len(rows)
              labels == AppendedLabels(n)
              old == idx.label_to_rowid_
              new == idx'.label_to_rowid_
          IN  /\ \A i \in 1..n :
                    /\ labels[i] < Len(new)
                    /\ new[labels[i] + 1] = rows[i]
                    /\ rows[i] \in DOMAIN idx'.rowid_to_label_
                    /\ idx'.rowid_to_label_[rows[i]] = labels[i]
              /\ Len(new) = IF labels[n] + 1 > Len(old) THEN labels[n] + 1 ELSE Len(old)
              /\ \A l \in (0..(Len(new) - 1)) \ Range(labels) :
                    new[l + 1] = IF l < Len(old) THEN old[l + 1] ELSE NoRow
              /\ DOMAIN idx'.rowid_to_label_ = DOMAIN idx.rowid_to_label_ \cup Range(rows)
              /\ \A r \in DOMAIN idx.rowid_to_label_ \ Range(rows) :
                    idx'.rowid_to_label_[r] = idx.rowid_to_label_[r]
              /\ idx'.is_dirty_]_vars

\* an Append has left a gap below its label in an index that mapped a row
\* before
C33_Witness ==
    /\ lastOp.op = "Append" /\ lastOp.status = "ok" /\ Len(lastOp.rows) = 1
    /\ Cardinality(DOMAIN idx.rowid_to_label_) >= 2
    /\ \E l \in 1..Len(idx.label_to_rowid_) :
          /\ idx.label_to_rowid_[l] = NoRow
          /\ l - 1 \notin DOMAIN eng.vecs
          /\ l < idx.rowid_to_label_[lastOp.rows[1]] + 1

\* the row ids of a Delete batch that have a reverse entry before the call
Resolved(rows) == Range(rows) \cap DOMAIN idx.rowid_to_label_

\* C34: Delete issues at most one engine call per invocation: a single
\* batched delete whose labels are exactly the labels that were mapped for
\* the batch's row ids (each once, also when a row id occurs twice in the
\* batch); row ids with no reverse entry are skipped without error, and when
\* no row id resolves no engine call is made and has_pending_deletes_ is not
\* set.
C34_DeleteIsOneBatch ==
    [][lastOp'.op = "Delete" =>
          LET resolved == Resolved(lastOp'.rows)
              calls == lastOp'.calls
          IN  /\ Len(calls) <= 1
              /\ calls # <<>> =>
                    /\ calls[1].fn = "delete_batch"
                    /\ Range(calls[1].arg) = {idx.rowid_to_label_[r] : r \in resolved}
                    /\ Len(calls[1].arg) = Cardinality(resolved)
              /\ (resolved # {} /\ idx.rust_handle_ # NullHandle) => calls # <<>>
              /\ lastOp'.status = "error" => calls # <<>>
              /\ resolved = {} =>
                    /\ calls = <<>>
                    /\ lastOp'.status = "ok"
                    /\ idx'.has_pending_deletes_ = idx.has_pending_deletes_
                    /\ Mappings(idx') = Mappings(idx)]_vars

\* a Delete whose batch names a mapped row id twice has reached the engine
C34_Witness ==
    /\ lastOp.op = "Delete" /\ lastOp.status = "ok"
    /\ Len(lastOp.rows) = 2 /\ lastOp.rows[1] = lastOp.rows[2]
    /\ lastOp.calls # <<>> /\ Len(lastOp.calls[1].arg) = 1
    /\ DOMAIN idx.rowid_to_label_ # {}

\* C35: whatever the engine does, MergeIndexes returns success and leaves
\* the target's is_dirty_ set.
C35_MergeAlwaysSucceeds ==
    (lastOp.op = "Merge") => (lastOp.status = "ok" /\ idx.is_dirty_)

(***************************************************************************)
(* MergeIndexes with the other index as an object of its own: the host     *)
(* constructs it, appends to it and deletes from it, then merges it into   *)
(* the table's index                                                       *)
(***************************************************************************)
SourceMapped == DOMAIN source.ix.rowid_to_label_

\* the host constructs the other index, with the expressions of idx
ConstructOther ==
    /\ ~source.held
    /\ source' = [NoSource EXCEPT !.held = TRUE,
                                  !.ix = NewIndex("s", idx.has_extra_columns_)]
    /\ lastOp' = Event("LanceIndex", "ok", <<>>)
    /\ UNCHANGED <<idx, eng, deleted, storageVars, buildVars, scan, registry, table, catalog,
                   original, tree, phase, output>>

\* Append on the other index
OtherAppend ==
    /\ source.held
    /\ \E rows \in DistinctSeqs(RowIds \ (Mapped \cup SourceMapped), 1, MaxBatch),
          gap \in 0..MaxGap :
          /\ source.e.next + gap + Len(rows) <= MaxLabel
          /\ \E r \in {IndexAppend(source.ix, source.e, rows, gap, "none")} :
                /\ source' = [source EXCEPT !.ix = r.ix, !.e = r.e, !.calls = <<>>,
                                            !.removed = @ \ Range(rows)]
                /\ lastOp' = Done("OtherAppend", rows, r)
    /\ UNCHANGED <<idx, eng, deleted, storageVars, buildVars, scan, registry, table, catalog,
                   original, tree, phase, output>>

\* Delete on the other index
OtherDelete ==
    /\ source.held
    /\ \E row_id \in SourceMapped, fail \in BOOLEAN :
          \E r \in {IndexDelete(source.ix, source.e, <<row_id>>, fail)} :
             /\ fail => r.status = "error"
             /\ source' = [source EXCEPT !.ix = r.ix, !.e = r.e, !.calls = <<>>,
                                         !.removed = @ \cup {row_id}]
             /\ lastOp' = Done("OtherDelete", <<row_id>>, r)
    /\ UNCHANGED <<idx, eng, deleted, storageVars, buildVars, scan, registry, table, catalog,
                   original, tree, phase, output>>

\* Append on the table's index, of rows the other index does not hold
TargetAppend ==
    /\ AppendStep(DistinctSeqs(RowIds \ (Mapped \cup SourceMapped), 1, 1), {0}, {"none"})
    /\ UNCHANGED <<storageVars, sink, scan, registry, source, table, catalog, original, tree,
                   phase, output>>
    /\ TrackIndex

\* MergeIndexes(other) on the table's index
MergeOther ==
    /\ source.held
    /\ SourceMapped \cap Mapped = {}
    /\ \E gap \in 0..MaxGap, failAt \in MergeFailPoints(idx) :
          /\ eng.next + gap + Len(source.ix.label_to_rowid_) <= MaxLabel
          /\ \E r \in {MergeIndexes(idx, source.ix, eng, source.e, gap, failAt)},
                o \in {MergeIndexesOther(idx, source.ix, source.e, failAt)} :
                /\ failAt # "none" => r.status = "error"
                /\ idx' = r.ix
                /\ eng' = r.e
                /\ source' = [source EXCEPT !.ix = o.ix, !.e = o.e, !.calls = o.calls]
                /\ deleted' = IF r.status = "ok" /\ idx.rust_handle_ # NullHandle
                              THEN deleted \ SourceMapped ELSE deleted
                /\ lastOp' = [Done("Merge", <<>>, r) EXCEPT !.arg = MergedSource(source)]
    /\ UNCHANGED <<storageVars, sink, scan, registry, table, catalog, original, tree, phase,
                   output>>
    /\ TrackIndex

NextMerge ==
    \/ ConstructOther
    \/ OtherAppend
    \/ OtherDelete
    \/ TargetAppend
    \/ MergeOther

SpecMerge == Init /\ [][NextMerge]_vars

\* C36: MergeIndexes does not modify the source index: its mapping tables,
\* has_pending_deletes_, is_dirty_ and engine handle are the same after the
\* merge as before, and no add, delete or compaction is issued against the
\* source engine.
C36_MergeLeavesSource ==
    [][lastOp'.op = "Merge" =>
          /\ Mappings(source'.ix) = Mappings(source.ix)
          /\ source'.ix.has_pending_deletes_ = source.ix.has_pending_deletes_
          /\ source'.ix.is_dirty_ = source.ix.is_dirty_
          /\ source'.ix.rust_handle_ = source.ix.rust_handle_
          /\ source'.ix = source.ix
          /\ source'.e = source.e
          /\ \A i \in 1..Len(source'.calls) :
                source'.calls[i].fn \in {"merge", "get_all_vectors"}]_vars

\* a merge has imported a row from a source that holds a live row and a
\* deleted one, and the source still holds them
C36_Witness ==
    /\ lastOp.op = "Merge" /\ lastOp.status = "ok"
    /\ \E i \in 1..Len(lastOp.calls) : lastOp.calls[i].fn \in {"merge", "add_batch"}
    /\ source.calls # <<>>
    /\ SourceMapped # {} /\ SourceMapped \subseteq Mapped
    /\ source.ix.has_pending_deletes_
    /\ \E l \in 1..Len(source.ix.label_to_rowid_) : source.ix.label_to_rowid_[l] = NoRow

(***************************************************************************)
(* LinkedBlockWriter and LinkedBlockReader on one chain: a payload written  *)
(* from the root over the payload the chain held before, and read back     *)
(***************************************************************************)
\* the lengths of the buffers of a payload: empty, within a block, up to a
\* block boundary, across one and across two boundaries
BufferLengths == {0, 1, BlockDataSize - 1, BlockDataSize, BlockDataSize + 1,
                  2 * BlockDataSize + 1}

\* at most MaxBuffers Write calls per payload
MaxBuffers == 2

\* the first bytes of the payloads; the bytes that follow count up modulo 256
FirstBytes == {1, 100, 250}

PayloadBytes(first, n) == [j \in 1..n |-> (first + j - 1) % 256]

\* the sum of a sequence of lengths
RECURSIVE SumLen(_)
SumLen(lengths) == IF lengths = <<>> THEN 0 ELSE Head(lengths) + SumLen(Tail(lengths))

\* the bytes cut into buffers of the given lengths
RECURSIVE Cut(_, _)
Cut(bytes, lengths) ==
    IF lengths = <<>> THEN <<>>
    ELSE <<SubSeq(bytes, 1, Head(lengths))>>
         \o Cut(SubSeq(bytes, Head(lengths) + 1, Len(bytes)), Tail(lengths))

Payloads ==
    {Cut(PayloadBytes(first, SumLen(lengths)), lengths) :
        first \in FirstBytes, lengths \in AnySeqs(BufferLengths, 1, MaxBuffers)}

\* the allocator holds the chain of an earlier payload, written from the root
\* block as New handed it out; an empty earlier payload leaves the root as it was
InitBlocks ==
    /\ \E extra \in BOOLEAN : idx = NewIndex("t", extra)
    /\ eng = EmptyDataset
    /\ deleted = {}
    /\ lastOp = NoOp
    /\ \E earlier \in Payloads :
          alloc = WriterWriteAll([alloc |-> <<NewBlock>>, current_ |-> 1, pos_ |-> 0],
                                 earlier).alloc
    /\ info = [valid |-> TRUE, root |-> 1]
    /\ NoQuery
    /\ NoBuild
    /\ NoScan

\* a LinkedBlockWriter on the root, Reset, and one Write per buffer
WritePayload ==
    /\ lastOp.op = "none"
    /\ \E buffers \in Payloads :
          \E w \in {WriterWriteAll([alloc |-> alloc, current_ |-> info.root, pos_ |-> 0],
                                   buffers)} :
             /\ alloc' = w.alloc
             /\ lastOp' = [NoOp EXCEPT !.op = "Write", !.arg = buffers]
    /\ UNCHANGED <<idx, eng, deleted, info, queryVars, buildVars, scan>>

\* a LinkedBlockReader on the root and one Read per buffer of the payload
\* written last, with the same lengths
ReadPayload ==
    /\ lastOp.op = "Write"
    /\ \E reads \in {ReaderReadAll(alloc,
                                   [current_ |-> info.root, pos_ |-> 0, exhausted_ |-> FALSE],
                                   [i \in 1..Len(lastOp.arg) |-> Len(lastOp.arg[i])])} :
          lastOp' = [lastOp EXCEPT
                        !.op = "Read",
                        !.result = [i \in 1..Len(reads) |-> reads[i].buffer],
                        !.short_read = \E i \in 1..Len(reads) :
                                          reads[i].total_read < Len(lastOp.arg[i])]
    /\ UNCHANGED <<idx, eng, deleted, alloc, info, queryVars, buildVars, scan>>

NextBlocks ==
    \/ WritePayload
    \/ ReadPayload

SpecBlocks == InitBlocks /\ [][NextBlocks]_vars

\* the blocks of the chain that starts at block p, in order
RECURSIVE Chain(_, _)
Chain(blocks, p) ==
    IF p = 0 THEN <<>> ELSE <<p>> \o Chain(blocks, blocks[p].next_block)

\* C37: for any byte sequence of any length written by LinkedBlockWriter
\* from the root block, LinkedBlockReader reading the same lengths from the
\* same root returns the identical bytes, also when the payload spans
\* several blocks, ends exactly on a block boundary or overwrites a longer
\* or a shorter earlier payload in the same chain; the writer reuses the
\* blocks the chain has and allocates new ones only past its end.
C37_WriteReadRoundTrip ==
    [][/\ lastOp'.op = "Read" =>
             /\ lastOp'.result = lastOp'.arg
             /\ ~lastOp'.short_read
       /\ lastOp'.op = "Write" =>
             LET old == Chain(alloc, info.root)
                 new == Chain(alloc', info.root)
                 total == SumLen([i \in 1..Len(lastOp'.arg) |-> Len(lastOp'.arg[i])])
                 needed == (total \div BlockDataSize) + 1
             IN  /\ SubSeq(new, 1, Len(old)) = old
                 /\ Len(new) = IF needed > Len(old) THEN needed ELSE Len(old)
                 /\ Len(alloc') = Len(new)
                 /\ \A j \in (Len(old) + 1)..Len(new) : new[j] > Len(alloc)]_vars

\* a payload that spans two blocks and ends on a block boundary has been
\* read back from a chain that held a longer payload before
C37_Witness ==
    /\ lastOp.op = "Read"
    /\ SumLen([i \in 1..Len(lastOp.arg) |-> Len(lastOp.arg[i])]) = 2 * BlockDataSize
    /\ Len(Chain(alloc, info.root)) > 3
    /\ lastOp.result = lastOp.arg

(***************************************************************************)
(* The backing locations of the indexes of one database                    *)
(***************************************************************************)
\* the characters of the index names: 'a', '_' and ' '
NameChars == {97, 95, 32}

\* the longest index name
MaxNameLen == 2

\* the number of indexes the host creates
MaxNamed == 2

IndexNames == AnySeqs(NameChars, 0, MaxNameLen)

NamesInUse == {catalog[i].name : i \in 1..Len(catalog)}

\* the database is file-backed or in-memory
InitPaths ==
    /\ \E extra \in BOOLEAN, db_path \in {DbPath, InMemoryPath} :
          idx = [NewIndex("t", extra) EXCEPT !.db_path = db_path]
    /\ eng = EmptyDataset
    /\ deleted = {}
    /\ lastOp = NoOp
    /\ alloc = <<>>
    /\ info = NoInfo
    /\ NoQuery
    /\ NoBuild
    /\ NoScan

\* CREATE INDEX on an empty table: the index object is constructed and its
\* location is fixed by GetLancePath at the first Append
CreateNamedIndex ==
    /\ Len(catalog) < MaxNamed
    /\ \E index_name \in IndexNames \ NamesInUse, addr \in StackAddrs :
          catalog' = Append(catalog,
                            [name |-> index_name, bulk |-> FALSE,
                             lance_path |-> GetLancePath([idx EXCEPT !.name = index_name],
                                                         addr).path])
    /\ UNCHANGED <<indexVars, storageVars, buildVars, scan, registry, source, table, original,
                   tree, phase, output>>

\* CREATE INDEX on a table with rows: the bulk build creates the dataset
BuildNamedIndex ==
    /\ Len(catalog) < MaxNamed
    /\ \E index_name \in IndexNames \ NamesInUse, addr \in StackAddrs :
          catalog' = Append(catalog, [name |-> index_name, bulk |-> TRUE,
                                      lance_path |-> SinkLancePath(index_name, idx.db_path,
                                                                   addr)])
    /\ UNCHANGED <<indexVars, storageVars, buildVars, scan, registry, source, table, original,
                   tree, phase, output>>

NextPaths ==
    \/ CreateNamedIndex
    \/ BuildNamedIndex

SpecPaths == InitPaths /\ [][NextPaths]_vars

\* C38: two indexes with different names in the same database never share a
\* backing location: the path built from the sanitized index name and the
\* database path is distinct for distinct index names.
C38_DistinctNamesDistinctPaths ==
    \A i, j \in 1..Len(catalog) :
       catalog[i].name # catalog[j].name => catalog[i].lance_path # catalog[j].lance_path

\* C39: Append with zero rows returns success and changes nothing: it does
\* not open the engine handle, does not touch either mapping table and does
\* not set is_dirty_.
C39_EmptyAppendIsNoOp ==
    [][(lastOp'.op = "Append" /\ lastOp'.rows = <<>>) =>
          /\ lastOp'.status = "ok"
          /\ lastOp'.calls = <<>>
          /\ idx'.rust_handle_ = idx.rust_handle_
          /\ Mappings(idx') = Mappings(idx)
          /\ idx'.is_dirty_ = idx.is_dirty_
          /\ idx' = idx
          /\ eng' = eng]_vars

\* an Append of no rows has returned on an index that never opened its handle
C39_Witness ==
    /\ lastOp.op = "Append" /\ lastOp.rows = <<>> /\ lastOp.status = "ok"
    /\ idx.rust_handle_ = NullHandle
    /\ ~idx.is_dirty_
    /\ ~eng.created

=============================================================================
